---- MODULE Spec2Model ----
(***************************************************************************)
(* A small-step model of the MITScript tree-walking interpreter            *)
(* (class Interpreter, class Frame) and of the driver's interpret command. *)
(* The recursion of the visitor is made explicit as a stack of pending     *)
(* handler continuations (kont); every action is one handler, or the part  *)
(* of a handler between two recursive accept() calls.                      *)
(***************************************************************************)
EXTENDS Integers, Sequences, FiniteSets, TLC

\* ------------------------------------------------------------------ bounds
\* input() may return the decimal strings of 0..MaxInput (and a few
\* non-numeric lines, see InputLines).
MaxInput == 2
\* Cap on the depth of stack_ (the host stack is finite).
MaxDepth == 6

\* ------------------------------------------------------------- characters
\* The characters the model's strings are made of, in ASCII order; a
\* std::string is a sequence of these one-character strings.
AsciiOrder ==
  << " ", "-", "0", "1", "2", "3", "4", "5", "6", "7", "8", "9", ":",
     "C", "F", "I", "N", "O", "T", "U",
     "a", "b", "c", "e", "f", "k", "l", "n", "o", "r", "s", "t", "u", "x", "y", "z",
     "{", "}" >>

Ord(c) == CHOOSE i \in 1..Len(AsciiOrder) : AsciiOrder[i] = c

Digits == << "0", "1", "2", "3", "4", "5", "6", "7", "8", "9" >>

isdigit(c) == \E i \in 1..Len(Digits) : Digits[i] = c

DigitVal(c) == (CHOOSE i \in 1..Len(Digits) : Digits[i] = c) - 1

\* std::string operator< : lexicographic on character codes.
RECURSIVE StrLess(_, _)
StrLess(a, b) ==
  IF b = << >> THEN FALSE
  ELSE IF a = << >> THEN TRUE
  ELSE IF Head(a) = Head(b) THEN StrLess(Tail(a), Tail(b))
  ELSE Ord(Head(a)) < Ord(Head(b))

\* std::to_string(int)
RECURSIVE to_string(_)
to_string(n) ==
  IF n < -2147483647 THEN << "-" >> \o to_string(214748364) \o << "8" >>
  ELSE IF n < 0 THEN << "-" >> \o to_string(-n)
  ELSE IF n < 10 THEN << Digits[n + 1] >>
  ELSE to_string(n \div 10) \o << Digits[(n % 10) + 1] >>

\* std::atoi on a string the intcast scan has accepted: an optional '-'
\* followed by digits; a lone "-" or "" converts no digit and yields 0.
RECURSIVE atoiDigits(_, _)
atoiDigits(s, acc) ==
  IF s = << >> THEN acc ELSE atoiDigits(Tail(s), acc * 10 + DigitVal(Head(s)))

atoi(s) ==
  IF s = << >> THEN 0
  ELSE IF Head(s) = "-" THEN -atoiDigits(Tail(s), 0)
  ELSE atoiDigits(s, 0)

\* int is 32 bits wide.
INT_MAX == 2147483647
INT_MIN == (-INT_MAX) - 1

\* ---------------------------------------------------------------- values
\* Value::data, a variant over bool, int, string, Record*, Function*,
\* monostate.  Record* and Function* are indices into the heaps below.
IntV(n) == [t |-> "Int", v |-> n]
BoolV(b) == [t |-> "Bool", v |-> b]
StrV(s) == [t |-> "Str", v |-> s]
RecV(r) == [t |-> "Rec", v |-> r]
FunV(f) == [t |-> "Fun", v |-> f]
NoneV == [t |-> "None", v |-> "monostate"]

\* ------------------------------------------------------------------- AST
\* ast::* nodes as records tagged by k.  A FunctionDeclaration refers to its
\* body Block by address (an index into the program's bodies table): the
\* interpreter compares body pointers, so node identity is part of the tree.
IntegerConstant(n) == [k |-> "IntegerConstant", value |-> n]
BooleanConstant(b) == [k |-> "BooleanConstant", value |-> b]
StringConstant(s) == [k |-> "StringConstant", value |-> s]
NoneConstant == [k |-> "NoneConstant"]
Identifier(n) == [k |-> "Identifier", name |-> n]
BinaryExpression(l, o, r) ==
  [k |-> "BinaryExpression", op |-> o, leftOperand |-> l, rightOperand |-> r]
UnaryExpression(o, e) == [k |-> "UnaryExpression", op |-> o, operand |-> e]
Assignment(l, e) == [k |-> "Assignment", lhs |-> l, expr |-> e]
NullNode == [k |-> "nullptr"]
IfStatement(c, th, el) ==
  [k |-> "IfStatement", condition |-> c, thenPart |-> th, elsePart |-> el]
WhileLoop(c, b) == [k |-> "WhileLoop", condition |-> c, body |-> b]
Block(ss) == [k |-> "Block", statements |-> ss]
Return(e) == [k |-> "Return", expression |-> e]
Global(n) == [k |-> "Global", name |-> n]
Record(fs) == [k |-> "Record", fields |-> fs]
FieldDereference(b, f) == [k |-> "FieldDereference", baseExpression |-> b, field |-> f]
IndexExpression(b, i) == [k |-> "IndexExpression", baseExpression |-> b, index |-> i]
Call(tg, as) == [k |-> "Call", targetExpression |-> tg, arguments |-> as]
FunctionDeclaration(ps, addr) ==
  [k |-> "FunctionDeclaration", arguments |-> ps, body |-> addr]

\* Shorthands used to write the programs below.
Var(n) == Identifier(n)
Num(n) == IntegerConstant(n)
Set(n, e) == Assignment(Identifier(n), e)
PrintOf(e) == Call(Identifier("print"), << e >>)
Call0(n) == Call(Identifier(n), << >>)

\* -------------------------------------------------------------- programs
\* The source programs the interpreter is run on; each is written as the
\* AST Parser::program() builds for the text in its comment.

\* x = 1; f = fun(){ return x; }; g = fun(){ x = 2; return f(); };
\* print(g()); h = fun(){ global x; x = 5; y = 7; return y; };
\* print(h()); print(x);
P_Scope ==
  [ main |-> Block(<<
      Set("x", Num(1)),
      Set("f", FunctionDeclaration(<< >>, 1)),
      Set("g", FunctionDeclaration(<< >>, 2)),
      PrintOf(Call0("g")),
      Set("h", FunctionDeclaration(<< >>, 3)),
      PrintOf(Call0("h")),
      PrintOf(Var("x")) >>),
    bodies |-> <<
      Block(<< Return(Var("x")) >>),
      Block(<< Set("x", Num(2)), Return(Call0("f")) >>),
      Block(<< Global("x"), Set("x", Num(5)), Set("y", Num(7)), Return(Var("y")) >>) >> ]

\* x = 1;
\* q = fun(){ x = 2; p = fun(){ global x; return fun(){ return x; }; };
\*            h = p(); return h(); };
\* print(q());
\* w = fun(x){ global x; x = x + 3; return fun(){ return x; }; };
\* k = w(9); print(k()); print(x);
P_GlobalChain ==
  [ main |-> Block(<<
      Set("x", Num(1)),
      Set("q", FunctionDeclaration(<< >>, 1)),
      PrintOf(Call0("q")),
      Set("w", FunctionDeclaration(<< "x" >>, 4)),
      Set("k", Call(Var("w"), << Num(9) >>)),
      PrintOf(Call0("k")),
      PrintOf(Var("x")) >>),
    bodies |-> <<
      Block(<< Set("x", Num(2)),
               Set("p", FunctionDeclaration(<< >>, 2)),
               Set("h", Call0("p")),
               Return(Call0("h")) >>),
      Block(<< Global("x"), Return(FunctionDeclaration(<< >>, 3)) >>),
      Block(<< Return(Var("x")) >>),
      Block(<< Global("x"),
               Set("x", BinaryExpression(Var("x"), "Add", Num(3))),
               Return(FunctionDeclaration(<< >>, 5)) >>),
      Block(<< Return(Var("x")) >>) >> ]

\* f = fun(a){ print(y); if (a) { y = 1; } else { z = 3; }
\*             while (false) { v = 2; } print(v); print(z);
\*             g = fun(){ w = 1; return w; }; y = g(); print(y); print(w); };
\* f(true);
P_Locals ==
  [ main |-> Block(<<
      Set("f", FunctionDeclaration(<< "a" >>, 1)),
      Call(Var("f"), << BooleanConstant(TRUE) >>) >>),
    bodies |-> <<
      Block(<< PrintOf(Var("y")),
               IfStatement(Var("a"), Block(<< Set("y", Num(1)) >>),
                                     Block(<< Set("z", Num(3)) >>)),
               WhileLoop(BooleanConstant(FALSE), Block(<< Set("v", Num(2)) >>)),
               PrintOf(Var("v")),
               PrintOf(Var("z")),
               Set("g", FunctionDeclaration(<< >>, 2)),
               Set("y", Call0("g")),
               PrintOf(Var("y")),
               PrintOf(Var("w")) >>),
      Block(<< Set("w", Num(1)), Return(Var("w")) >>) >> ]

\* mk = fun(){ x = 1; g = fun(){ return x; }; h = fun(){ return x; };
\*             call = fun(f){ global t; t = 1; x = 10; return f(); };
\*             x = 2; print(call(g)); x = 3; print(h()); print(g()); return g; };
\* gg = mk(); print(gg());
P_Closure ==
  [ main |-> Block(<<
      Set("mk", FunctionDeclaration(<< >>, 1)),
      Set("gg", Call0("mk")),
      PrintOf(Call0("gg")) >>),
    bodies |-> <<
      Block(<< Set("x", Num(1)),
               Set("g", FunctionDeclaration(<< >>, 2)),
               Set("h", FunctionDeclaration(<< >>, 3)),
               Set("call", FunctionDeclaration(<< "f" >>, 4)),
               Set("x", Num(2)),
               PrintOf(Call(Var("call"), << Var("g") >>)),
               Set("x", Num(3)),
               PrintOf(Call0("h")),
               PrintOf(Call0("g")),
               Return(Var("g")) >>),
      Block(<< Return(Var("x")) >>),
      Block(<< Return(Var("x")) >>),
      Block(<< Global("t"), Set("t", Num(1)), Set("x", Num(10)),
               Return(Call0("f")) >>) >> ]

\* f = fun(n){ i = 0;
\*             while (true) { if (i == n) { return i * 10; print(99); }
\*                            i = i + 1; print(i); }
\*             print(98); };
\* print(f(2)); g = fun(){ x = 1; }; print(g()); print(7);
P_Return ==
  [ main |-> Block(<<
      Set("f", FunctionDeclaration(<< "n" >>, 1)),
      PrintOf(Call(Var("f"), << Num(2) >>)),
      Set("g", FunctionDeclaration(<< >>, 2)),
      PrintOf(Call0("g")),
      PrintOf(Num(7)) >>),
    bodies |-> <<
      Block(<< Set("i", Num(0)),
               WhileLoop(BooleanConstant(TRUE), Block(<<
                 IfStatement(BinaryExpression(Var("i"), "Eq", Var("n")),
                             Block(<< Return(BinaryExpression(Var("i"), "Mul", Num(10))),
                                      PrintOf(Num(99)) >>),
                             NullNode),
                 Set("i", BinaryExpression(Var("i"), "Add", Num(1))),
                 PrintOf(Var("i")) >>)),
               PrintOf(Num(98)) >>),
      Block(<< Set("x", Num(1)) >>) >> ]

\* counter = fun(){ n = 0; return fun(){ n = n+1; return n; }; };
\* c = counter(); print(c()); print(c()); print(c());
P_Counter ==
  [ main |-> Block(<<
      Set("counter", FunctionDeclaration(<< >>, 1)),
      Set("c", Call0("counter")),
      PrintOf(Call0("c")),
      PrintOf(Call0("c")),
      PrintOf(Call0("c")) >>),
    bodies |-> <<
      Block(<< Set("n", Num(0)), Return(FunctionDeclaration(<< >>, 2)) >>),
      Block(<< Set("n", BinaryExpression(Var("n"), "Add", Num(1))),
               Return(Var("n")) >>) >> ]
\* x = 5; x(print(1));
P_CallNonFunction ==
  [ main |-> Block(<<
      Set("x", Num(5)),
      Call(Var("x"), << PrintOf(Num(1)) >>) >>),
    bodies |-> << >> ]

\* print(print(1), 2);
P_ArityPrint ==
  [ main |-> Block(<< Call(Var("print"), << PrintOf(Num(1)), Num(2) >>) >>),
    bodies |-> << >> ]

\* x = input(print(1));
P_ArityInput ==
  [ main |-> Block(<< Set("x", Call(Var("input"), << PrintOf(Num(1)) >>)) >>),
    bodies |-> << >> ]

\* f = fun(a){ print(2); return a; }; f(print(1), 1 / 0);
P_ArityUser ==
  [ main |-> Block(<<
      Set("f", FunctionDeclaration(<< "a" >>, 1)),
      Call(Var("f"), << PrintOf(Num(1)), BinaryExpression(Num(1), "Div", Num(0)) >>) >>),
    bodies |-> << Block(<< PrintOf(Num(2)), Return(Var("a")) >>) >> ]

\* mk = fun(){ return fun(a){ return a; }; }; f1 = mk(); f2 = mk();
\* a = fun(){ return 1; }; b = fun(){ return 1; }; c = a;
\* r = {}; i = 0; while (i < 2) { r[i] = fun(){ return 1; }; i = i + 1; }
\* print(a == b); print(a == c); print(f1 == f2); print(f1 == f1);
\* print(r[0] == r[1]); print(a == 1); print(None == 0); print("1" == 1);
\* e = {}; print(r == e); print(r == r); print(true == true); print(None == None);
\* print(print == print); print(print == input); print(a == print);
\* print(print == intcast);
P_Eq ==
  [ main |-> Block(<<
      Set("mk", FunctionDeclaration(<< >>, 1)),
      Set("f1", Call0("mk")),
      Set("f2", Call0("mk")),
      Set("a", FunctionDeclaration(<< >>, 3)),
      Set("b", FunctionDeclaration(<< >>, 4)),
      Set("c", Var("a")),
      Set("r", Record(<< >>)),
      Set("i", Num(0)),
      WhileLoop(BinaryExpression(Var("i"), "Lt", Num(2)), Block(<<
        Assignment(IndexExpression(Var("r"), Var("i")), FunctionDeclaration(<< >>, 5)),
        Set("i", BinaryExpression(Var("i"), "Add", Num(1))) >>)),
      PrintOf(BinaryExpression(Var("a"), "Eq", Var("b"))),
      PrintOf(BinaryExpression(Var("a"), "Eq", Var("c"))),
      PrintOf(BinaryExpression(Var("f1"), "Eq", Var("f2"))),
      PrintOf(BinaryExpression(Var("f1"), "Eq", Var("f1"))),
      PrintOf(BinaryExpression(IndexExpression(Var("r"), Num(0)), "Eq",
                               IndexExpression(Var("r"), Num(1)))),
      PrintOf(BinaryExpression(Var("a"), "Eq", Num(1))),
      PrintOf(BinaryExpression(NoneConstant, "Eq", Num(0))),
      PrintOf(BinaryExpression(StringConstant(<< "1" >>), "Eq", Num(1))),
      Set("e", Record(<< >>)),
      PrintOf(BinaryExpression(Var("r"), "Eq", Var("e"))),
      PrintOf(BinaryExpression(Var("r"), "Eq", Var("r"))),
      PrintOf(BinaryExpression(BooleanConstant(TRUE), "Eq", BooleanConstant(TRUE))),
      PrintOf(BinaryExpression(NoneConstant, "Eq", NoneConstant)),
      PrintOf(BinaryExpression(Var("print"), "Eq", Var("print"))),
      PrintOf(BinaryExpression(Var("print"), "Eq", Var("input"))),
      PrintOf(BinaryExpression(Var("a"), "Eq", Var("print"))),
      PrintOf(BinaryExpression(Var("print"), "Eq", Var("intcast"))) >>),
    bodies |-> <<
      Block(<< Return(FunctionDeclaration(<< "a" >>, 2)) >>),
      Block(<< Return(Var("a")) >>),
      Block(<< Return(Num(1)) >>),
      Block(<< Return(Num(1)) >>),
      Block(<< Return(Num(1)) >>) >> ]

\* r = { a:1; b:3; a:2; }; print(r.a); print(r["a"]); print(r);
\* r.a = 5; print(r.a); print(r);
P_Dup ==
  [ main |-> Block(<<
      Set("r", Record(<< << << "a" >>, Num(1) >>,
                         << << "b" >>, Num(3) >>,
                         << << "a" >>, Num(2) >> >>)),
      PrintOf(FieldDereference(Var("r"), << "a" >>)),
      PrintOf(IndexExpression(Var("r"), StringConstant(<< "a" >>))),
      PrintOf(Var("r")),
      Assignment(FieldDereference(Var("r"), << "a" >>), Num(5)),
      PrintOf(FieldDereference(Var("r"), << "a" >>)),
      PrintOf(Var("r")) >>),
    bodies |-> << >> ]

\* n = intcast(input());
\* fact = fun(k){ if (k < 1) { return 1; } return k * fact(k - 1); };
\* print(fact(n)); s = input(); print("x" + s);
P_Input ==
  [ main |-> Block(<<
      Set("n", Call(Var("intcast"), << Call0("input") >>)),
      Set("fact", FunctionDeclaration(<< "k" >>, 1)),
      PrintOf(Call(Var("fact"), << Var("n") >>)),
      Set("s", Call0("input")),
      PrintOf(BinaryExpression(StringConstant(<< "x" >>), "Add", Var("s"))) >>),
    bodies |-> <<
      Block(<< IfStatement(BinaryExpression(Var("k"), "Lt", Num(1)),
                           Block(<< Return(Num(1)) >>), NullNode),
               Return(BinaryExpression(Var("k"), "Mul",
                        Call(Var("fact"), << BinaryExpression(Var("k"), "Sub", Num(1)) >>)))
            >>) >> ]

\* r = {}; r.a = 1; r["b"] = 2 - 1; r[1] = true; r.a = "s"; r["b"] = None;
\* print(r); print(r.zz); print(r["a"]); print(r[1]); print(-3 / 2);
\* print(!(1 < 2) | 2 >= 1 & 1 <= 1 & 3 > 2);
\* print("s" + 1); print(1 + "s"); print("a" + "b"); print(None);
\* print(fun(){ }); x = 1 / 0;
P_Ops ==
  [ main |-> Block(<<
      Set("r", Record(<< >>)),
      Assignment(FieldDereference(Var("r"), << "a" >>), Num(1)),
      Assignment(IndexExpression(Var("r"), StringConstant(<< "b" >>)),
                 BinaryExpression(Num(2), "Sub", Num(1))),
      Assignment(IndexExpression(Var("r"), Num(1)), BooleanConstant(TRUE)),
      Assignment(FieldDereference(Var("r"), << "a" >>), StringConstant(<< "s" >>)),
      Assignment(IndexExpression(Var("r"), StringConstant(<< "b" >>)), NoneConstant),
      PrintOf(Var("r")),
      PrintOf(FieldDereference(Var("r"), << "z", "z" >>)),
      PrintOf(IndexExpression(Var("r"), StringConstant(<< "a" >>))),
      PrintOf(IndexExpression(Var("r"), Num(1))),
      PrintOf(BinaryExpression(UnaryExpression("Neg", Num(3)), "Div", Num(2))),
      PrintOf(BinaryExpression(
                UnaryExpression("Not", BinaryExpression(Num(1), "Lt", Num(2))),
                "Or",
                BinaryExpression(
                  BinaryExpression(BinaryExpression(Num(2), "Geq", Num(1)), "And",
                                   BinaryExpression(Num(1), "Leq", Num(1))),
                  "And", BinaryExpression(Num(3), "Gt", Num(2))))),
      PrintOf(BinaryExpression(StringConstant(<< "s" >>), "Add", Num(1))),
      PrintOf(BinaryExpression(Num(1), "Add", StringConstant(<< "s" >>))),
      PrintOf(BinaryExpression(StringConstant(<< "a" >>), "Add", StringConstant(<< "b" >>))),
      PrintOf(NoneConstant),
      PrintOf(FunctionDeclaration(<< >>, 1)),
      Set("x", BinaryExpression(Num(1), "Div", Num(0))) >>),
    bodies |-> << Block(<< >>) >> ]

\* r = { a:1; b:2; }; r.c = r.a + r["b"]; print(r);
\* e = {}; print(e); n = { z:e; y:{ b:"s"; a:None; }; }; print(n);
P_Record ==
  [ main |-> Block(<<
      Set("r", Record(<< << << "a" >>, Num(1) >>, << << "b" >>, Num(2) >> >>)),
      Assignment(FieldDereference(Var("r"), << "c" >>),
                 BinaryExpression(FieldDereference(Var("r"), << "a" >>), "Add",
                                  IndexExpression(Var("r"), StringConstant(<< "b" >>)))),
      PrintOf(Var("r")),
      Set("e", Record(<< >>)),
      PrintOf(Var("e")),
      Set("n", Record(<< << << "z" >>, Var("e") >>,
                         << << "y" >>, Record(<< << << "b" >>, StringConstant(<< "s" >>) >>,
                                                 << << "a" >>, NoneConstant >> >>) >> >>)),
      PrintOf(Var("n")) >>),
    bodies |-> << >> ]

\* r = { x:0; }; r[1] = "a"; r["1"] = "b"; print(r[1]); r["x"] = 5;
\* print(r.x); r.x = r["x"] + 1; print(r["x"]); print(r.q); print(r["q"]);
\* r[1 + 1] = 3; print(r); n = 3; s = input();
\* if (s == "0") { n.a = 1; } if (s == "1") { n["a"] = 1; }
\* if (s == "2") { print(n.a); } print(n["a"]);
P_Index ==
  [ main |-> Block(<<
      Set("r", Record(<< << << "x" >>, Num(0) >> >>)),
      Assignment(IndexExpression(Var("r"), Num(1)), StringConstant(<< "a" >>)),
      Assignment(IndexExpression(Var("r"), StringConstant(<< "1" >>)),
                 StringConstant(<< "b" >>)),
      PrintOf(IndexExpression(Var("r"), Num(1))),
      Assignment(IndexExpression(Var("r"), StringConstant(<< "x" >>)), Num(5)),
      PrintOf(FieldDereference(Var("r"), << "x" >>)),
      Assignment(FieldDereference(Var("r"), << "x" >>),
                 BinaryExpression(IndexExpression(Var("r"), StringConstant(<< "x" >>)),
                                  "Add", Num(1))),
      PrintOf(IndexExpression(Var("r"), StringConstant(<< "x" >>))),
      PrintOf(FieldDereference(Var("r"), << "q" >>)),
      PrintOf(IndexExpression(Var("r"), StringConstant(<< "q" >>))),
      Assignment(IndexExpression(Var("r"), BinaryExpression(Num(1), "Add", Num(1))),
                 Num(3)),
      PrintOf(Var("r")),
      Set("n", Num(3)),
      Set("s", Call0("input")),
      IfStatement(BinaryExpression(Var("s"), "Eq", StringConstant(<< "0" >>)),
                  Block(<< Assignment(FieldDereference(Var("n"), << "a" >>), Num(1)) >>),
                  NullNode),
      IfStatement(BinaryExpression(Var("s"), "Eq", StringConstant(<< "1" >>)),
                  Block(<< Assignment(IndexExpression(Var("n"), StringConstant(<< "a" >>)),
                                      Num(1)) >>),
                  NullNode),
      IfStatement(BinaryExpression(Var("s"), "Eq", StringConstant(<< "2" >>)),
                  Block(<< PrintOf(FieldDereference(Var("n"), << "a" >>)) >>),
                  NullNode),
      PrintOf(IndexExpression(Var("n"), StringConstant(<< "a" >>))) >>),
    bodies |-> << >> ]

\* t = fun(){ print(1); return true; }; f = fun(){ print(0); return false; };
\* print(f() & t()); print(t() | f()); s = input();
\* if (s == "0") { x = false & (1 / 0 == 1); }
\* if (s == "1") { x = true | None; }
\* print(1 | t());
P_Eager ==
  [ main |-> Block(<<
      Set("t", FunctionDeclaration(<< >>, 1)),
      Set("f", FunctionDeclaration(<< >>, 2)),
      PrintOf(BinaryExpression(Call0("f"), "And", Call0("t"))),
      PrintOf(BinaryExpression(Call0("t"), "Or", Call0("f"))),
      Set("s", Call0("input")),
      IfStatement(BinaryExpression(Var("s"), "Eq", StringConstant(<< "0" >>)),
                  Block(<< Set("x", BinaryExpression(BooleanConstant(FALSE), "And",
                             BinaryExpression(BinaryExpression(Num(1), "Div", Num(0)),
                                              "Eq", Num(1)))) >>),
                  NullNode),
      IfStatement(BinaryExpression(Var("s"), "Eq", StringConstant(<< "1" >>)),
                  Block(<< Set("x", BinaryExpression(BooleanConstant(TRUE), "Or",
                                                     NoneConstant)) >>),
                  NullNode),
      PrintOf(BinaryExpression(Num(1), "Or", Call0("t"))) >>),
    bodies |-> <<
      Block(<< PrintOf(Num(1)), Return(BooleanConstant(TRUE)) >>),
      Block(<< PrintOf(Num(0)), Return(BooleanConstant(FALSE)) >>) >> ]

\* print(1 / 0); print(2);
P_DivZero ==
  [ main |-> Block(<<
      PrintOf(BinaryExpression(Num(1), "Div", Num(0))),
      PrintOf(Num(2)) >>),
    bodies |-> << >> ]

\* print(1); while (true) { if (true) { return 5; print(2); } print(3); } print(4);
P_TopReturn ==
  [ main |-> Block(<<
      PrintOf(Num(1)),
      WhileLoop(BooleanConstant(TRUE), Block(<<
        IfStatement(BooleanConstant(TRUE),
                    Block(<< Return(Num(5)), PrintOf(Num(2)) >>),
                    NullNode),
        PrintOf(Num(3)) >>)),
      PrintOf(Num(4)) >>),
    bodies |-> << >> ]

\* r = {}; r.self = r; print("a"); print(r); print("b");
P_Cycle ==
  [ main |-> Block(<<
      Set("r", Record(<< >>)),
      Assignment(FieldDereference(Var("r"), << "self" >>), Var("r")),
      PrintOf(StringConstant(<< "a" >>)),
      PrintOf(Var("r")),
      PrintOf(StringConstant(<< "b" >>)) >>),
    bodies |-> << >> ]

\* a = {}; b = { n:a; }; a.n = b; print("a"); s = "s" + b; print("b");
P_CycleConcat ==
  [ main |-> Block(<<
      Set("a", Record(<< >>)),
      Set("b", Record(<< << << "n" >>, Var("a") >> >>)),
      Assignment(FieldDereference(Var("a"), << "n" >>), Var("b")),
      PrintOf(StringConstant(<< "a" >>)),
      Set("s", BinaryExpression(StringConstant(<< "s" >>), "Add", Var("b"))),
      PrintOf(StringConstant(<< "b" >>)) >>),
    bodies |-> << >> ]

ProgramNames ==
  { "scope", "globalchain", "locals", "closure", "return", "counter",
    "callnonfunction", "arityprint", "arityinput", "arityuser",
    "eq", "dup", "input", "ops", "record", "index", "eager", "divzero", "topreturn",
    "cycle", "cycleconcat" }

Programs ==
  [ n \in ProgramNames |->
      CASE n = "scope" -> P_Scope
        [] n = "globalchain" -> P_GlobalChain
        [] n = "locals" -> P_Locals
        [] n = "closure" -> P_Closure
        [] n = "return" -> P_Return
        [] n = "counter" -> P_Counter
        [] n = "callnonfunction" -> P_CallNonFunction
        [] n = "arityprint" -> P_ArityPrint
        [] n = "arityinput" -> P_ArityInput
        [] n = "arityuser" -> P_ArityUser
        [] n = "eq" -> P_Eq
        [] n = "dup" -> P_Dup
        [] n = "input" -> P_Input
        [] n = "ops" -> P_Ops
        [] n = "record" -> P_Record
        [] n = "index" -> P_Index
        [] n = "eager" -> P_Eager
        [] n = "divzero" -> P_DivZero
        [] n = "topreturn" -> P_TopReturn
        [] n = "cycle" -> P_Cycle
        [] n = "cycleconcat" -> P_CycleConcat ]

\* std::getline(std::cin, input): the lines stdin may hold.
InputLines ==
  { to_string(n) : n \in 0..MaxInput } \cup { << >>, << "-" >>, << "1", "a" >> }

\* ----------------------------------------------------------------- lexer
\* A std::string is a sequence of pieces whose concatenation is its text:
\* the characters of a lexeme one by one, or the literal parts of a message.
\* Text gives the text itself; it is also the key a name is looked up by.
RECURSIVE Text(_)
Text(cs) == IF cs = << >> THEN "" ELSE Head(cs) \o Text(Tail(cs))

Token(ty, s, ln) == [type |-> ty, str |-> s, line |-> ln]

\* std::optional<Token>: std::nullopt, or a token and the new value of i.
nullopt == [has |-> FALSE]
Read(t, j) == [has |-> TRUE, tok |-> t, i |-> j]

Letters ==
  { "a", "b", "c", "d", "e", "f", "g", "h", "i", "j", "k", "l", "m",
    "n", "o", "p", "q", "r", "s", "t", "u", "v", "w", "x", "y", "z",
    "A", "B", "C", "D", "E", "F", "G", "H", "I", "J", "K", "L", "M",
    "N", "O", "P", "Q", "R", "S", "T", "U", "V", "W", "X", "Y", "Z" }

isalpha(c) == c \in Letters
isalnum(c) == isalpha(c) \/ isdigit(c)
isWhitespace(c) == c \in { " ", "\t", "\n", "\r", "\f" }

\* contents[i] with i counted from 0, as the code counts it.
CharAt(contents, i) == contents[i + 1]

isComment(contents, i) ==
  i + 1 < Len(contents) /\ CharAt(contents, i) = "/" /\ CharAt(contents, i + 1) = "/"

symbolTable ==
  [ c \in { ";", "=", ",", "{", "}", "(", ")", "[", "]",
            "+", "-", "*", "/", "&", "|", "!", ".", ":" } |->
      CASE c = ";" -> "Semicolon" [] c = "=" -> "Assign" [] c = "," -> "Comma"
        [] c = "{" -> "LBrace" [] c = "}" -> "RBrace"
        [] c = "(" -> "LParen" [] c = ")" -> "RParen"
        [] c = "[" -> "LSquareBrace" [] c = "]" -> "RSquareBrace"
        [] c = "+" -> "Add" [] c = "-" -> "Sub" [] c = "*" -> "Mul"
        [] c = "/" -> "Div" [] c = "&" -> "And" [] c = "|" -> "Or"
        [] c = "!" -> "Not" [] c = "." -> "Dot" [] c = ":" -> "Colon" ]

readSymbol(contents, i, lineNum) ==
  LET c == CharAt(contents, i) IN
  IF c \notin DOMAIN symbolTable THEN nullopt
  ELSE Read(Token(symbolTable[c], << c >>, lineNum), i + 1)

\* The end of a run starting at j: while (i < size && p(contents[i])) i++.
RECURSIVE RunEnd(_, _, _)
RunEnd(contents, j, isdigitOnly) ==
  IF j < Len(contents)
     /\ ( IF isdigitOnly THEN isdigit(CharAt(contents, j))
          ELSE isalnum(CharAt(contents, j)) \/ CharAt(contents, j) = "_" )
  THEN RunEnd(contents, j + 1, isdigitOnly)
  ELSE j

\* contents.substr(start, n)
substr(contents, start, n) == SubSeq(contents, start + 1, start + n)

readNumber(contents, i, lineNum) ==
  IF ~isdigit(CharAt(contents, i)) THEN nullopt
  ELSE IF CharAt(contents, i) = "0"
  THEN IF i + 1 < Len(contents) /\ isdigit(CharAt(contents, i + 1))
       THEN Read(Token("Error", << "invalid number with leading zero" >>, lineNum),
                 RunEnd(contents, i + 1, TRUE))
       ELSE Read(Token("IntLiteral", << "0" >>, lineNum), i + 1)
  ELSE
    LET j == RunEnd(contents, i, TRUE)
        e == RunEnd(contents, j, FALSE)
    IN IF j < Len(contents) /\ (isalpha(CharAt(contents, j)) \/ CharAt(contents, j) = "_")
       THEN Read(Token("Error",
                       << "invalid token '" >> \o substr(contents, i, e - i) \o << "'" >>,
                       lineNum), e)
       ELSE Read(Token("IntLiteral", substr(contents, i, j - i), lineNum), j)

\* ASCII 32..126 except the quote and the backslash; the characters below
\* 32 that a text here can hold are the whitespace controls.
isValidChar(c) == c \notin { "\t", "\n", "\r", "\f", "\"", "\\" }

\* The while loop of readString from position j on, result and first error
\* message so far in scope.  hasError is errorMsg # << >>.
RECURSIVE readStringFrom(_, _, _, _, _)
readStringFrom(contents, j, result, errorMsg, lineNum) ==
  IF j >= Len(contents)
  THEN Read(Token("Error", << "unterminated string literal" >>, lineNum), j)
  ELSE
    LET c == CharAt(contents, j) IN
    IF c = "\""
    THEN IF errorMsg # << >>
         THEN Read(Token("Error", errorMsg, lineNum), j + 1)
         ELSE Read(Token("StringLiteral", result \o << "\"" >>, lineNum), j + 1)
    ELSE IF c = "\\"
    THEN IF j + 1 >= Len(contents)
         THEN Read(Token("Error", << "unterminated escape sequence" >>, lineNum), j)
         ELSE LET next == CharAt(contents, j + 1) IN
              readStringFrom(contents, j + 2, result \o << "\\", next >>,
                IF next \in { "\"", "\\", "n", "t" } \/ errorMsg # << >>
                THEN errorMsg
                ELSE << "invalid escape sequence \\", next >>,
                lineNum)
    ELSE readStringFrom(contents, j + 1, result \o << c >>,
           IF isValidChar(c) \/ errorMsg # << >>
           THEN errorMsg
           ELSE << "invalid character in string (ASCII " >>
                  \o to_string(CASE c = "\t" -> 9 [] c = "\f" -> 12 [] OTHER -> 13)
                  \o << ")" >>,
           lineNum)

readString(contents, i, lineNum) ==
  IF CharAt(contents, i) # "\"" THEN nullopt
  ELSE readStringFrom(contents, i + 1, << "\"" >>, << >>, lineNum)

keywordTable ==
  [ w \in { "global", "return", "while", "if", "else", "fun", "None", "true", "false" } |->
      IF w \in { "true", "false" } THEN "BooleanLiteral" ELSE "Keyword" ]

readIdentifierOrKeyword(contents, i, lineNum) ==
  IF ~isalpha(CharAt(contents, i)) /\ CharAt(contents, i) # "_" THEN nullopt
  ELSE
    LET j == RunEnd(contents, i + 1, FALSE)
        word == substr(contents, i, j - i)
    IN IF Text(word) \in DOMAIN keywordTable
       THEN Read(Token(keywordTable[Text(word)], word, lineNum), j)
       ELSE Read(Token("Identifier", word, lineNum), j)

readComparison(contents, i, lineNum) ==
  LET two == IF i + 1 < Len(contents) THEN Text(substr(contents, i, 2)) ELSE "" IN
  IF two \in { "<=", ">=", "==" }
  THEN Read(Token(CASE two = "<=" -> "Leq" [] two = ">=" -> "Geq" [] two = "==" -> "Eq",
                  substr(contents, i, 2), lineNum), i + 2)
  ELSE IF CharAt(contents, i) \in { "<", ">" }
  THEN Read(Token(IF CharAt(contents, i) = "<" THEN "Lt" ELSE "Gt",
                  << CharAt(contents, i) >>, lineNum), i + 1)
  ELSE nullopt

\* Lexer::handleBrackets(t) followed by addToken(t), on the token vector and
\* the bracket stack (top last) of a Lexer.
Closes == [ c \in { "RBrace", "RParen", "RSquareBrace" } |->
            CASE c = "RBrace" -> "LBrace" [] c = "RParen" -> "LParen"
              [] c = "RSquareBrace" -> "LSquareBrace" ]

\* Mutant of handleBrackets: a closer that does not match the opener on top
\* of the stack is reported and the opener is popped all the same.
handleBrackets_pop(lx, t) ==
  IF t.type \in { "LBrace", "LParen", "LSquareBrace" }
  THEN [lx EXCEPT !.stack_ = Append(@, t)]
  ELSE IF t.type \in DOMAIN Closes
  THEN IF lx.stack_ # << >> /\ lx.stack_[Len(lx.stack_)].type = Closes[t.type]
       THEN [lx EXCEPT !.stack_ = SubSeq(@, 1, Len(@) - 1)]
       ELSE [lx EXCEPT !.tokens_ =
               Append(@, Token("Error", << "unmatched '", t.str[1], "'" >>, t.line)),
                       !.stack_ = SubSeq(@, 1, Len(@) - 1)]
  ELSE lx

handleBrackets(lx, t) ==
  IF t.type \in { "LBrace", "LParen", "LSquareBrace" }
  THEN [lx EXCEPT !.stack_ = Append(@, t)]
  ELSE IF t.type \in DOMAIN Closes
  THEN IF lx.stack_ # << >> /\ lx.stack_[Len(lx.stack_)].type = Closes[t.type]
       THEN [lx EXCEPT !.stack_ = SubSeq(@, 1, Len(@) - 1)]
       ELSE [lx EXCEPT !.tokens_ =
               Append(@, Token("Error", << "unmatched '", t.str[1], "'" >>, t.line))]
  ELSE lx

addToken(lx, t) == [lx EXCEPT !.tokens_ = Append(@, t)]

\* Mutant of unrecognized: the character is reported and i stays.
unrecognized_stay(contents, i, lineNum) ==
  Read(Token("Error", << "unrecognized character '", CharAt(contents, i), "'" >>, lineNum), i)

\* No reader took the character: it is reported and skipped (i++).
unrecognized(contents, i, lineNum) ==
  Read(Token("Error", << "unrecognized character '", CharAt(contents, i), "'" >>, lineNum),
       i + 1)

\* The token-reading part of the body of the for loop over a line, tried in
\* the order the code tries the readers: the token read and the value of i
\* after it.
scan(contents, i, lineNum) ==
  LET s == readString(contents, i, lineNum)
      n == readNumber(contents, i, lineNum)
      w == readIdentifierOrKeyword(contents, i, lineNum)
      c == readComparison(contents, i, lineNum)
      y == readSymbol(contents, i, lineNum)
  IN CASE s.has -> s
       [] ~s.has /\ n.has -> n
       [] ~s.has /\ ~n.has /\ w.has -> w
       [] ~s.has /\ ~n.has /\ ~w.has /\ c.has -> c
       [] ~s.has /\ ~n.has /\ ~w.has /\ ~c.has /\ y.has -> y
       [] OTHER -> unrecognized(contents, i, lineNum)

\* std::getline on the unread part of the stream: the line up to the next
\* '\n' (not included) and what is left after it.
getline(rest) ==
  LET ends == { k \in 1..Len(rest) : rest[k] = "\n" }
      e == IF ends = { } THEN Len(rest) + 1
           ELSE CHOOSE k \in ends : \A m \in ends : k <= m
  IN [line |-> SubSeq(rest, 1, e - 1), rest |-> SubSeq(rest, e + 1, Len(rest))]

\* ---------------------------------------------------------------- parser
\* A parser function returns the node it built and the new value of
\* current_, or throws std::runtime_error (std::out_of_range from stoi).
Parsed(n, q) == [ok |-> TRUE, node |-> n, p |-> q]
Throw(msg) == [ok |-> FALSE, what |-> msg]

\* The statements after a call: skipped when the call r threw, else F of
\* what it returned.
Then(r, F(_)) == CHOOSE y \in { IF x.ok THEN F(x) ELSE x : x \in { r } } : TRUE

\* tokens_[current_] with current_ counted from 0.
isAtEnd(ts, p) == p >= Len(ts) \/ ts[p + 1].type = "EoF"
peek(ts, p) == IF isAtEnd(ts, p) THEN Token("None", << >>, -1) ELSE ts[p + 1]
check(ts, p, type) == ~isAtEnd(ts, p) /\ ts[p + 1].type = type

\* consume(type, ...) || throw std::runtime_error(msg), then the rest F at
\* the next token.
Expect(ts, p, type, msg, F(_)) == IF check(ts, p, type) THEN F(p + 1) ELSE Throw(msg)

\* std::stoi on the digits of an IntLiteral; -1 stands for std::out_of_range.
RECURSIVE stoi(_, _)
stoi(s, acc) ==
  IF s = << >> THEN acc
  ELSE IF acc > (INT_MAX - DigitVal(Head(s))) \div 10 THEN -1
  ELSE stoi(Tail(s), acc * 10 + DigitVal(Head(s)))


\* The call of the Parser member function that is named.
RECURSIVE Run(_, _, _)

idTerm(ts, p) ==
  IF check(ts, p, "Identifier")
  THEN Parsed(Identifier(Text(ts[p + 1].str)), p + 1)
  ELSE Throw("Expected identifier")

location(ts, p) ==
  LET RECURSIVE loop(_)
      loop(base) ==
        Then(base, LAMBDA expr :
          IF check(ts, expr.p, "Dot")
          THEN Expect(ts, expr.p + 1, "Identifier", "Expect identifier after '.'",
                 LAMBDA q : loop(Parsed(FieldDereference(expr.node, ts[q].str), q)))
          ELSE IF check(ts, expr.p, "LSquareBrace")
          THEN Then(Run("expression", ts, expr.p + 1), LAMBDA index :
                 Expect(ts, index.p, "RSquareBrace", "Invalid index expression",
                   LAMBDA q : loop(Parsed(IndexExpression(expr.node, index.node), q))))
          ELSE expr)
  IN loop(idTerm(ts, p))

\* p is at the '(' the callers have checked.
function_call(ts, p, expr) ==
  LET RECURSIVE loop(_, _)
      loop(args, q) ==
        Then(Run("expression", ts, q), LAMBDA arg :
          IF check(ts, arg.p, "Comma") THEN loop(Append(args, arg.node), arg.p + 1)
          ELSE Parsed(Append(args, arg.node), arg.p))
  IN Then(IF check(ts, p + 1, "RParen") THEN Parsed(<< >>, p + 1) ELSE loop(<< >>, p + 1),
       LAMBDA args :
         Expect(ts, args.p, "RParen", "Invalid call expression",
           LAMBDA q : Parsed(Call(expr, args.node), q)))

assignment(ts, p, lhs) ==
  Expect(ts, p, "Assign", "Invalid assignment", LAMBDA q0 :
    Then(Run("expression", ts, q0), LAMBDA expr :
      Expect(ts, expr.p, "Semicolon", "Invalid assignment",
        LAMBDA q : Parsed(Assignment(lhs, expr.node), q))))

\* Mutant of parse_assignment_or_call: a location followed by `;` is taken
\* as a statement too.
parse_assignment_or_call_bare(ts, p) ==
  Then(location(ts, p), LAMBDA expr :
    IF check(ts, expr.p, "Assign") THEN assignment(ts, expr.p, expr.node)
    ELSE IF check(ts, expr.p, "LParen")
    THEN Then(function_call(ts, expr.p, expr.node), LAMBDA call :
           Expect(ts, call.p, "Semicolon", "Invalid call expression",
             LAMBDA q : Parsed(call.node, q)))
    ELSE Expect(ts, expr.p, "Semicolon", "Invalid expression",
           LAMBDA q : Parsed(expr.node, q)))

parse_assignment_or_call(ts, p) ==
  Then(location(ts, p), LAMBDA expr :
    IF check(ts, expr.p, "Assign") THEN assignment(ts, expr.p, expr.node)
    ELSE IF check(ts, expr.p, "LParen")
    THEN Then(function_call(ts, expr.p, expr.node), LAMBDA call :
           Expect(ts, call.p, "Semicolon", "Invalid call expression",
             LAMBDA q : Parsed(call.node, q)))
    ELSE Throw("Invalid expression"))

\* The statements up to a '}' or the end of the tokens: the loop of
\* program() (closer = FALSE) and of block().
RECURSIVE statements(_, _, _, _)
statements(ts, p, closer, acc) ==
  IF isAtEnd(ts, p) \/ (closer /\ check(ts, p, "RBrace")) THEN Parsed(acc, p)
  ELSE Then(Run("statement", ts, p), LAMBDA stmt :
         statements(ts, stmt.p, closer, Append(acc, stmt.node)))

block(ts, p) ==
  Expect(ts, p, "LBrace", "Invalid block", LAMBDA q0 :
    Then(statements(ts, q0, TRUE, << >>), LAMBDA body :
      Expect(ts, body.p, "RBrace", "Invalid block",
        LAMBDA q : Parsed(Block(body.node), q))))

\* The shared head of ifStatement and whileStatement: keyword, '(',
\* condition, ')', block; F makes the node of condition and block.
conditionAndBlock(ts, p, msg, F(_, _)) ==
  Expect(ts, p, "Keyword", msg, LAMBDA q0 :
    Expect(ts, q0, "LParen", msg, LAMBDA q1 :
      Then(Run("expression", ts, q1), LAMBDA condition :
        Expect(ts, condition.p, "RParen", msg, LAMBDA q :
          Then(Run("block", ts, q), LAMBDA body : F(condition.node, body))))))

ifStatement(ts, p) ==
  conditionAndBlock(ts, p, "Invalid if statement", LAMBDA condition, thenBranch :
    IF check(ts, thenBranch.p, "Keyword") /\ Text(ts[thenBranch.p + 1].str) = "else"
    THEN Then(Run("block", ts, thenBranch.p + 1), LAMBDA elseBranch :
           Parsed(IfStatement(condition, thenBranch.node, elseBranch.node), elseBranch.p))
    ELSE Parsed(IfStatement(condition, thenBranch.node, NullNode), thenBranch.p))

whileStatement(ts, p) ==
  conditionAndBlock(ts, p, "Invalid while statement", LAMBDA condition, body :
    Parsed(WhileLoop(condition, body.node), body.p))

returnStatement(ts, p) ==
  Expect(ts, p, "Keyword", "Invalid return statement", LAMBDA q0 :
    Then(Run("expression", ts, q0), LAMBDA expr :
      Expect(ts, expr.p, "Semicolon", "Invalid return statement",
        LAMBDA q : Parsed(Return(expr.node), q))))

globalDeclaration(ts, p) ==
  Expect(ts, p, "Keyword", "Invalid global statement", LAMBDA q0 :
    Expect(ts, q0, "Identifier", "Expect identifier after 'global'", LAMBDA q1 :
      Expect(ts, q1, "Semicolon", "Invalid global declaration",
        LAMBDA q : Parsed(Global(Text(ts[q1].str)), q))))

statement(ts, p) ==
  LET keyword == IF check(ts, p, "Keyword") THEN Text(ts[p + 1].str) ELSE "" IN
  CASE keyword = "if" -> ifStatement(ts, p)
    [] keyword = "while" -> whileStatement(ts, p)
    [] keyword = "return" -> returnStatement(ts, p)
    [] keyword = "global" -> globalDeclaration(ts, p)
    [] OTHER -> parse_assignment_or_call(ts, p)

\* A FunctionDeclaration owns its body Block; the address standing for that
\* object is the place of the body's '{' among the tokens, and the Block
\* itself is kept in the node until main() has the whole tree.
functionDeclaration(ts, p) ==
  LET RECURSIVE loop(_, _)
      loop(parameters, q) ==
        Expect(ts, q, "Identifier", "Expect parameter name", LAMBDA q1 :
          IF check(ts, q1, "Comma") THEN loop(Append(parameters, Text(ts[q1].str)), q1 + 1)
          ELSE Parsed(Append(parameters, Text(ts[q1].str)), q1))
  IN Expect(ts, p, "Keyword", "Invalid function declaration", LAMBDA q0 :
       Expect(ts, q0, "LParen", "Invalid function declaration", LAMBDA q1 :
         Then(IF check(ts, q1, "RParen") THEN Parsed(<< >>, q1) ELSE loop(<< >>, q1),
           LAMBDA parameters :
             Expect(ts, parameters.p, "RParen", "Invalid function declaration", LAMBDA q :
               Then(Run("block", ts, q), LAMBDA body :
                 Parsed([ k |-> "FunctionDeclaration", arguments |-> parameters.node,
                          body |-> q + 1, block |-> body.node ], body.p))))))

record(ts, p) ==
  LET RECURSIVE loop(_, _)
      loop(fields, q) ==
        IF check(ts, q, "RBrace") \/ isAtEnd(ts, q) THEN Parsed(fields, q)
        ELSE Expect(ts, q, "Identifier", "Expect field name", LAMBDA q1 :
               Expect(ts, q1, "Colon", "Invalid record field", LAMBDA q2 :
                 Then(Run("expression", ts, q2), LAMBDA value :
                   Expect(ts, value.p, "Semicolon", "Invalid record field", LAMBDA q3 :
                     loop(Append(fields, << ts[q1].str, value.node >>), q3)))))
  IN Expect(ts, p, "LBrace", "Invalid record", LAMBDA q0 :
       Then(loop(<< >>, q0), LAMBDA fields :
         Expect(ts, fields.p, "RBrace", "Invalid record",
           LAMBDA q : Parsed(Record(fields.node), q))))

expression(ts, p) ==
  IF check(ts, p, "Keyword") /\ Text(ts[p + 1].str) = "fun" THEN functionDeclaration(ts, p)
  ELSE IF check(ts, p, "LBrace") THEN record(ts, p)
  ELSE Run("logical_or", ts, p)

\* Each binary level: while the current token is an operator of the level,
\* a right operand is parsed one level up and the pair becomes the left
\* operand.
logical_or(ts, p) ==
  LET RECURSIVE loop(_)
      loop(left) ==
        Then(left, LAMBDA expr :
          IF peek(ts, expr.p).type \notin { "Or" } THEN expr
          ELSE Then(Run("logical_and", ts, expr.p + 1), LAMBDA right :
                 loop(Parsed(BinaryExpression(expr.node, ts[expr.p + 1].type, right.node),
                             right.p))))
  IN loop(Run("logical_and", ts, p))

logical_and(ts, p) ==
  LET RECURSIVE loop(_)
      loop(left) ==
        Then(left, LAMBDA expr :
          IF peek(ts, expr.p).type \notin { "And" } THEN expr
          ELSE Then(Run("logical_not", ts, expr.p + 1), LAMBDA right :
                 loop(Parsed(BinaryExpression(expr.node, ts[expr.p + 1].type, right.node),
                             right.p))))
  IN loop(Run("logical_not", ts, p))

logical_not(ts, p) ==
  IF check(ts, p, "Not")
  THEN Then(Run("logical_not", ts, p + 1), LAMBDA expr :
         Parsed(UnaryExpression("Not", expr.node), expr.p))
  ELSE Run("equality", ts, p)

equality(ts, p) ==
  LET RECURSIVE loop(_)
      loop(left) ==
        Then(left, LAMBDA expr :
          IF peek(ts, expr.p).type \notin { "Eq" } THEN expr
          ELSE Then(Run("relational", ts, expr.p + 1), LAMBDA right :
                 loop(Parsed(BinaryExpression(expr.node, ts[expr.p + 1].type, right.node),
                             right.p))))
  IN loop(Run("relational", ts, p))

relational(ts, p) ==
  LET RECURSIVE loop(_)
      loop(left) ==
        Then(left, LAMBDA expr :
          IF peek(ts, expr.p).type \notin { "Lt", "Gt", "Leq", "Geq" } THEN expr
          ELSE Then(Run("additive", ts, expr.p + 1), LAMBDA right :
                 loop(Parsed(BinaryExpression(expr.node, ts[expr.p + 1].type, right.node),
                             right.p))))
  IN loop(Run("additive", ts, p))

\* Mutant of additive: the right operand is a whole additive expression.
additive_right(ts, p) ==
  Then(Run("multiplicative", ts, p), LAMBDA expr :
    IF peek(ts, expr.p).type \notin { "Add", "Sub" } THEN expr
    ELSE Then(Run("additive", ts, expr.p + 1), LAMBDA right :
           Parsed(BinaryExpression(expr.node, ts[expr.p + 1].type, right.node), right.p)))

additive(ts, p) ==
  LET RECURSIVE loop(_)
      loop(left) ==
        Then(left, LAMBDA expr :
          IF peek(ts, expr.p).type \notin { "Add", "Sub" } THEN expr
          ELSE Then(Run("multiplicative", ts, expr.p + 1), LAMBDA right :
                 loop(Parsed(BinaryExpression(expr.node, ts[expr.p + 1].type, right.node),
                             right.p))))
  IN loop(Run("multiplicative", ts, p))

multiplicative(ts, p) ==
  LET RECURSIVE loop(_)
      loop(left) ==
        Then(left, LAMBDA expr :
          IF peek(ts, expr.p).type \notin { "Mul", "Div" } THEN expr
          ELSE Then(Run("unary", ts, expr.p + 1), LAMBDA right :
                 loop(Parsed(BinaryExpression(expr.node, ts[expr.p + 1].type, right.node),
                             right.p))))
  IN loop(Run("unary", ts, p))

unary(ts, p) ==
  IF check(ts, p, "Sub")
  THEN Then(Run("unary", ts, p + 1), LAMBDA expr :
         Parsed(UnaryExpression("Neg", expr.node), expr.p))
  ELSE Run("primary", ts, p)

parse_location_or_call(ts, p) ==
  Then(location(ts, p), LAMBDA expr :
    IF check(ts, expr.p, "LParen") THEN function_call(ts, expr.p, expr.node) ELSE expr)

\* Mutant of primary: a literal that does not fit an int becomes INT_MAX.
primary_clamp(ts, p) ==
  LET type == peek(ts, p).type IN
  CASE type = "LParen" ->
         Then(Run("logical_or", ts, p + 1), LAMBDA expr :
           Expect(ts, expr.p, "RParen", "Invalid parenthesized expression",
             LAMBDA q : Parsed(expr.node, q)))
    [] type = "IntLiteral" ->
         IF stoi(ts[p + 1].str, 0) = -1 THEN Parsed(IntegerConstant(INT_MAX), p + 1)
         ELSE Parsed(IntegerConstant(stoi(ts[p + 1].str, 0)), p + 1)
    [] type = "StringLiteral" ->
         Parsed(StringConstant(SubSeq(ts[p + 1].str, 2, Len(ts[p + 1].str) - 1)), p + 1)
    [] type = "BooleanLiteral" ->
         Parsed(BooleanConstant(Text(ts[p + 1].str) = "true"), p + 1)
    [] type = "Keyword" /\ Text(ts[p + 1].str) = "None" -> Parsed(NoneConstant, p + 1)
    [] OTHER -> parse_location_or_call(ts, p)

\* The int a literal is given as std::stoi(advance().str); std::out_of_range
\* leaves the parser.
primary(ts, p) ==
  LET type == peek(ts, p).type IN
  CASE type = "LParen" ->
         Then(Run("logical_or", ts, p + 1), LAMBDA expr :
           Expect(ts, expr.p, "RParen", "Invalid parenthesized expression",
             LAMBDA q : Parsed(expr.node, q)))
    [] type = "IntLiteral" ->
         IF stoi(ts[p + 1].str, 0) = -1 THEN Throw("stoi")
         ELSE Parsed(IntegerConstant(stoi(ts[p + 1].str, 0)), p + 1)
    [] type = "StringLiteral" ->
         Parsed(StringConstant(SubSeq(ts[p + 1].str, 2, Len(ts[p + 1].str) - 1)), p + 1)
    [] type = "BooleanLiteral" ->
         Parsed(BooleanConstant(Text(ts[p + 1].str) = "true"), p + 1)
    [] type = "Keyword" /\ Text(ts[p + 1].str) = "None" -> Parsed(NoneConstant, p + 1)
    [] OTHER -> parse_location_or_call(ts, p)

Run(rule, ts, p) ==
  CASE rule = "statement" -> statement(ts, p)
    [] rule = "block" -> block(ts, p)
    [] rule = "expression" -> expression(ts, p)
    [] rule = "logical_or" -> logical_or(ts, p)
    [] rule = "logical_and" -> logical_and(ts, p)
    [] rule = "logical_not" -> logical_not(ts, p)
    [] rule = "equality" -> equality(ts, p)
    [] rule = "relational" -> relational(ts, p)
    [] rule = "additive" -> additive(ts, p)
    [] rule = "multiplicative" -> multiplicative(ts, p)
    [] rule = "unary" -> unary(ts, p)
    [] rule = "primary" -> primary(ts, p)

program(ts) ==
  Then(statements(ts, 0, FALSE, << >>), LAMBDA body : Parsed(Block(body.node), body.p))

\* Parser::parse: std::optional of the tree, std::nullopt after a throw
\* (the message goes to std::cerr).
parse(ts) ==
  CHOOSE y \in { IF r.ok THEN [has_value |-> TRUE, value |-> r.node]
                 ELSE [has_value |-> FALSE, what |-> r.what] : r \in { program(ts) } } : TRUE

\* The body Blocks a tree owns, each with its address.
RECURSIVE Bodies(_)
Bodies(n) ==
  LET Of(children) == UNION { Bodies(children[i]) : i \in DOMAIN children } IN
  CASE n.k = "FunctionDeclaration" -> { << n.body, n.block >> } \cup Bodies(n.block)
    [] n.k = "Block" -> Of(n.statements)
    [] n.k = "BinaryExpression" -> Of(<< n.leftOperand, n.rightOperand >>)
    [] n.k = "UnaryExpression" -> Bodies(n.operand)
    [] n.k = "Assignment" -> Of(<< n.lhs, n.expr >>)
    [] n.k = "IfStatement" -> Of(<< n.condition, n.thenPart, n.elsePart >>)
    [] n.k = "WhileLoop" -> Of(<< n.condition, n.body >>)
    [] n.k = "Return" -> Bodies(n.expression)
    [] n.k = "Record" -> Of([ i \in DOMAIN n.fields |-> n.fields[i][2] ])
    [] n.k = "FieldDereference" -> Bodies(n.baseExpression)
    [] n.k = "IndexExpression" -> Of(<< n.baseExpression, n.index >>)
    [] n.k = "Call" -> Of(<< n.targetExpression >> \o n.arguments)
    [] OTHER -> { }

\* ----------------------------------------------------------------- state
VARIABLES
  prog,          \* the program main() was given (name in ProgramNames)
  pc,            \* where main() is: "lex", "parse", "interpret" or "done"
  lexer,         \* main's Lexer object and the position of Lexer::lex in it
  ast,           \* what Parser::parse returned: the tree and its function bodies
  kont,          \* pending handler continuations, innermost first
  frames,        \* heap of Frame objects; a Frame* is an index, 0 is nullptr
  functions,     \* heap of Function objects; a Function* is an index
  records,       \* heap of Record objects: each a sequence of <<name, value>>
  stack_,        \* Interpreter::stack_, top last
  rval_,         \* Interpreter::rval_
  hasReturned_,  \* Interpreter::hasReturned_
  out,           \* lines written to std::cout
  fault,         \* the exception in flight ("none" when there is none)
  err,           \* lines written to std::cerr by main
  exitCode,      \* main's return value; -1 while main is running
  origin,        \* history: for each frame, the function called and the caller's frame
  written,       \* history: last value explicitly assigned to <<frame, name>>
  ghost,         \* history: what the last read, write, call, == and field read did
  vm             \* the vm command: bytecode::Lexer, bytecode::Parser and the tree

vars ==
  << prog, pc, lexer, ast, kont, frames, functions, records, stack_, rval_, hasReturned_,
     out, fault, err, exitCode, origin, written, ghost, vm >>

\* The frame std::stack::top() returns.
top == stack_[Len(stack_)]

\* The root frame interpret() creates first.
globalFrame == 1

\* Function* values of the three natives, in the order interpret() allocates them.
printNative_ == 1
inputNative_ == 2
intcastNative_ == 3

\* What main() holds outside the Interpreter object.
driver == << prog, pc, lexer, ast, vm >>

\* f->body dereferenced: the Block at a body address of the running program.
BodyAt(addr) == ast.bodies[addr]

\* ------------------------------------------------------------------ Frame
\* History bookkeeping: key now maps to v.
Remember(h, key, v) ==
  [ x \in (DOMAIN h) \cup { key } |-> IF x = key THEN v ELSE h[x] ]

\* variables[name] = addr
setVar(variables, name, addr) ==
  [ x \in (DOMAIN variables) \cup { name } |-> IF x = name THEN addr ELSE variables[x] ]

\* Mutant of lookupWrite: the global set is not consulted.
lookupWrite_local(name, currentFrame) == currentFrame

lookupWrite(name, currentFrame) ==
  IF name \in frames[currentFrame].globals
  THEN frames[currentFrame].globalFrame
  ELSE currentFrame

\* The result of lookupRead: a Value*, or UninitializedVariableException thrown.
Found(v) == [ok |-> TRUE, val |-> v]
Thrown == [ok |-> FALSE]

\* Mutant of lookupRead: the frame's own variables are tried before its
\* global set.
RECURSIVE lookupRead_localFirst(_, _)
lookupRead_localFirst(name, currentFrame) ==
  LET fr == frames[currentFrame] IN
  IF name \in DOMAIN fr.variables THEN Found(fr.variables[name])
  ELSE IF name \in fr.globals
  THEN IF name \in DOMAIN frames[fr.globalFrame].variables
       THEN Found(frames[fr.globalFrame].variables[name])
       ELSE Thrown
  ELSE IF fr.parent = 0 THEN Thrown
  ELSE lookupRead_localFirst(name, fr.parent)

\* Mutant of lookupRead: a name the frame does not bind is sought in the
\* global frame, the parent chain is not walked.
lookupRead_twoLevel(name, currentFrame) ==
  LET fr == frames[currentFrame] IN
  IF name \in fr.globals \/ name \notin DOMAIN fr.variables
  THEN IF name \in DOMAIN frames[fr.globalFrame].variables
       THEN Found(frames[fr.globalFrame].variables[name])
       ELSE Thrown
  ELSE Found(fr.variables[name])

RECURSIVE lookupRead(_, _)
lookupRead(name, currentFrame) ==
  LET fr == frames[currentFrame] IN
  IF name \in fr.globals
  THEN IF name \in DOMAIN frames[fr.globalFrame].variables
       THEN Found(frames[fr.globalFrame].variables[name])
       ELSE Thrown
  ELSE IF name \in DOMAIN fr.variables THEN Found(fr.variables[name])
  ELSE IF fr.parent = 0 THEN Thrown
  ELSE lookupRead(name, fr.parent)

\* ------------------------------------------------- extractGlobals/Assigns
RECURSIVE extractGlobals(_)
extractGlobals(node) ==
  IF node.k = "Block"
  THEN UNION { extractGlobals(node.statements[i]) : i \in 1..Len(node.statements) }
  ELSE IF node.k = "Global" THEN { node.name }
  ELSE IF node.k = "IfStatement"
  THEN extractGlobals(node.thenPart) \cup
       (IF node.elsePart.k # "nullptr" THEN extractGlobals(node.elsePart) ELSE {})
  ELSE IF node.k = "WhileLoop" THEN extractGlobals(node.body)
  ELSE {}

\* Mutant of extractAssigns: while bodies are not searched.
RECURSIVE extractAssigns_noWhile(_)
extractAssigns_noWhile(node) ==
  IF node.k = "Block"
  THEN UNION { extractAssigns_noWhile(node.statements[i]) : i \in 1..Len(node.statements) }
  ELSE IF node.k = "Assignment"
  THEN (IF node.lhs.k = "Identifier" THEN { node.lhs.name } ELSE {})
  ELSE IF node.k = "IfStatement"
  THEN extractAssigns_noWhile(node.thenPart) \cup
       (IF node.elsePart.k # "nullptr" THEN extractAssigns_noWhile(node.elsePart) ELSE {})
  ELSE {}

RECURSIVE extractAssigns(_)
extractAssigns(node) ==
  IF node.k = "Block"
  THEN UNION { extractAssigns(node.statements[i]) : i \in 1..Len(node.statements) }
  ELSE IF node.k = "Assignment"
  THEN (IF node.lhs.k = "Identifier" THEN { node.lhs.name } ELSE {})
  ELSE IF node.k = "IfStatement"
  THEN extractAssigns(node.thenPart) \cup
       (IF node.elsePart.k # "nullptr" THEN extractAssigns(node.elsePart) ELSE {})
  ELSE IF node.k = "WhileLoop" THEN extractAssigns(node.body)
  ELSE {}

\* ---------------------------------------------------------- valueToString
\* The first field of a record's vector with the given name.
FirstField(fields, name) ==
  fields[CHOOSE i \in 1..Len(fields) :
           /\ fields[i][1] = name
           /\ \A j \in 1..(i - 1) : fields[j][1] # name][2]

HasField(fields, name) == \E i \in 1..Len(fields) : fields[i][1] = name

RECURSIVE JoinFields(_, _, _)
RECURSIVE valueToString(_)

\* The loop over the sorted fieldNames, from index i on.
JoinFields(fields, fieldNames, i) ==
  IF i > Len(fieldNames) THEN << >>
  ELSE (IF i > 1 THEN << " " >> ELSE << >>)
       \o fieldNames[i] \o << ":" >> \o valueToString(FirstField(fields, fieldNames[i]))
       \o JoinFields(fields, fieldNames, i + 1)

valueToString(v) ==
  IF v.t = "Str" THEN v.v
  ELSE IF v.t = "Int" THEN to_string(v.v)
  ELSE IF v.t = "Bool" THEN (IF v.v THEN << "t", "r", "u", "e" >>
                                    ELSE << "f", "a", "l", "s", "e" >>)
  ELSE IF v.t = "None" THEN << "N", "o", "n", "e" >>
  ELSE IF v.t = "Fun" THEN << "F", "U", "N", "C", "T", "I", "O", "N" >>
  ELSE LET fields == records[v.v]
           fieldNames == SortSeq([i \in 1..Len(fields) |-> fields[i][1]], StrLess)
           result == << "{" >> \o JoinFields(fields, fieldNames, 1) \o << " ", "}" >>
       IN IF result = << "{", " ", "}" >> THEN << "{", "}" >> ELSE result

\* The records the loop of valueToString calls valueToString on, for the
\* record r: the first field of each name that holds a record.
FieldRecords(r) ==
  { records[r][i][2].v :
      i \in { j \in 1..Len(records[r]) :
                /\ records[r][j][2].t = "Rec"
                /\ \A h \in 1..(j - 1) : records[r][h][1] # records[r][j][1] } }

\* The records reached from the set S in at most n nested calls.
RECURSIVE Descent(_, _)
Descent(S, n) ==
  IF n = 0 THEN S
  ELSE Descent(S \cup UNION { FieldRecords(r) : r \in S }, n - 1)

\* valueToString(v) has no visited set and no depth limit: when a record it
\* descends into is reached again from its own fields the calls nest without
\* end and the call stack is exhausted.
Exhausts(v) ==
  /\ v.t = "Rec"
  /\ \E r \in Descent({ v.v }, Len(records)) :
        r \in Descent(FieldRecords(r), Len(records))

\* ------------------------------------------------------------------- Init
\* main() up to and including the start of Interpreter::interpret: the root
\* frame, the natives and None are bound, the root frame is pushed and the
\* program's top-level Block is about to be visited.
Visit(n) == [op |-> "visit", node |-> n]

NoGhost ==
  [ write |-> [name |-> "", cur |-> 0, target |-> 0, nfun |-> 0],
    read |-> [name |-> "", cur |-> 0, ok |-> FALSE, val |-> NoneV],
    call |-> [fn |-> 0, frame |-> 0, returned |-> FALSE, val |-> NoneV],
    ret |-> [done |-> FALSE, val |-> NoneV],
    stored |-> {},
    eq |-> [done |-> FALSE, left |-> NoneV, right |-> NoneV, res |-> FALSE],
    get |-> [rec |-> 0, name |-> << >>, val |-> NoneV],
    check |-> [done |-> FALSE] ]

\* The Lexer main() constructs on the text it read, before lex() is called.
Lexer(input) ==
  [ input_ |-> input, tokens_ |-> << >>, stack_ |-> << >>,
    rest |-> input, line |-> << >>, i |-> 0, numLines |-> 0, inFor |-> FALSE ]

NoAst == [main |-> NullNode, bodies |-> << >>]

\* The vm command is not the one main() was given.
NoVm == [stage |-> "none"]

\* The Interpreter object as interpret() first sets it up.
Constructed ==
  /\ frames = << [ variables |-> [ x \in { "print", "input", "intcast", "None" } |->
                                     CASE x = "print" -> FunV(printNative_)
                                       [] x = "input" -> FunV(inputNative_)
                                       [] x = "intcast" -> FunV(intcastNative_)
                                       [] x = "None" -> NoneV ],
                   parent |-> 0,
                   globals |-> { "print", "input", "intcast", "None" },
                   globalFrame |-> globalFrame ] >>
  /\ functions = << [context |-> globalFrame, arguments |-> << "s" >>, body |-> 0],
                    [context |-> globalFrame, arguments |-> << >>, body |-> 0],
                    [context |-> globalFrame, arguments |-> << "s" >>, body |-> 0] >>
  /\ records = << >>
  /\ stack_ = << globalFrame >>
  /\ rval_ = NoneV
  /\ hasReturned_ = FALSE
  /\ out = << >>
  /\ fault = "none"
  /\ err = << >>
  /\ exitCode = -1
  /\ origin = << [fn |-> 0, caller |-> 0] >>
  /\ written = << >>
  /\ ghost = NoGhost

\* main() with the text lexed and parsed, about to call interpret().
Init ==
  /\ prog \in ProgramNames
  /\ pc = "interpret"
  /\ lexer = Lexer(<< >>)
  /\ ast = Programs[prog]
  /\ kont = << Visit(ast.main) >>
  /\ vm = NoVm
  /\ Constructed
\* ------------------------------------------------------ step vocabulary
K == Head(kont)
Rest == Tail(kont)
At(o) == fault = "none" /\ kont # << >> /\ Head(kont).op = o
Visiting(k) == At("visit") /\ Head(kont).node.k = k

\* What a handler step yields: a value for rval_, or a thrown exception.
Ok(v) == [ok |-> TRUE, val |-> v]
Raise(e) == [ok |-> FALSE, exc |-> e]

\* The outcome of a handler that calls valueToString(v) and goes on with
\* the value given: the process is killed when the stack is exhausted.
Converted(v, res) == IF Exhausts(v) THEN Raise("SIGSEGV") ELSE res

\* Mutant of Yield: a thrown exception is recorded and the pending handlers
\* stay.
Yield_resume(res, k2) ==
  /\ rval_' = IF res.ok THEN res.val ELSE rval_
  /\ fault' = IF res.ok THEN fault ELSE res.exc
  /\ kont' = k2

\* rval_ is set and the handler goes on with k2, or the exception leaves
\* every pending handler (nothing in the interpreter catches).
Yield(res, k2) ==
  /\ rval_' = IF res.ok THEN res.val ELSE rval_
  /\ fault' = IF res.ok THEN fault ELSE res.exc
  /\ kont' = IF res.ok THEN k2 ELSE << >>

Goto(k2) == kont' = k2 /\ UNCHANGED << rval_, fault >>

heap == << frames, functions, records >>
io == << out, err, exitCode >>
hist == << origin, written >>

\* ------------------------------------------------------------- constants
VisitIntegerConstant ==
  /\ Visiting("IntegerConstant")
  /\ Yield(Ok(IntV(K.node.value)), Rest)
  /\ UNCHANGED << driver, heap, stack_, hasReturned_, io, hist, ghost >>

VisitBooleanConstant ==
  /\ Visiting("BooleanConstant")
  /\ Yield(Ok(BoolV(K.node.value)), Rest)
  /\ UNCHANGED << driver, heap, stack_, hasReturned_, io, hist, ghost >>

VisitStringConstant ==
  /\ Visiting("StringConstant")
  /\ Yield(Ok(StrV(K.node.value)), Rest)
  /\ UNCHANGED << driver, heap, stack_, hasReturned_, io, hist, ghost >>

VisitNoneConstant ==
  /\ Visiting("NoneConstant")
  /\ Yield(Ok(NoneV), Rest)
  /\ UNCHANGED << driver, heap, stack_, hasReturned_, io, hist, ghost >>

\* ------------------------------------------------------ BinaryExpression
\* int arithmetic.  A result outside INT_MIN..INT_MAX is signed overflow,
\* which is undefined: the build may leave any int in the result or trap.
Defined(n) == { Ok(IntV(n)) }
Undefined ==
  { Ok(IntV(INT_MIN)), Ok(IntV(-1)), Ok(IntV(0)), Ok(IntV(INT_MAX)), Raise("undefined") }

Abs(a) == IF a < 0 THEN -a ELSE a

\* 2^31 divided by d, for d in 2..INT_MAX, rounded down.
Pow31Div(d) == (INT_MAX \div d) + (IF INT_MAX % d = d - 1 THEN 1 ELSE 0)

AddResult(a, b) ==
  IF (b > 0 /\ a > INT_MAX - b) \/ (b < 0 /\ a < INT_MIN - b)
  THEN Undefined ELSE Defined(a + b)

SubResult(a, b) ==
  IF (b < 0 /\ a > INT_MAX + b) \/ (b > 0 /\ a < INT_MIN + b)
  THEN Undefined ELSE Defined(a - b)

MulResult(a, b) ==
  IF a = 0 \/ b = 0 THEN Defined(0)
  ELSE IF a = INT_MIN \/ b = INT_MIN
  THEN (IF a = 1 \/ b = 1 THEN Defined(INT_MIN) ELSE Undefined)
  ELSE LET x == Abs(a)
           y == Abs(b)
           neg == (a < 0) # (b < 0)
       IN IF y <= INT_MAX \div x THEN Defined(IF neg THEN -(x * y) ELSE x * y)
          ELSE IF neg /\ INT_MAX % x = x - 1 /\ y = (INT_MAX \div x) + 1
          THEN Defined(INT_MIN)
          ELSE Undefined

\* int / int truncates toward zero; the divisor is not 0.
DivResult(a, b) ==
  IF a = INT_MIN
  THEN (IF b = -1 THEN Undefined
        ELSE IF b = 1 THEN Defined(INT_MIN)
        ELSE IF b = INT_MIN THEN Defined(1)
        ELSE IF b > 0 THEN Defined(-Pow31Div(b))
        ELSE Defined(Pow31Div(-b)))
  ELSE IF b = INT_MIN THEN Defined(0)
  ELSE LET q == Abs(a) \div Abs(b)
       IN Defined(IF (a < 0) # (b < 0) THEN -q ELSE q)

NegResult(a) == IF a = INT_MIN THEN Undefined ELSE Defined(-a)

\* Mutant of FunctionEq: the captured frames are not compared.
FunctionEq_noContext(f1, f2) ==
  /\ functions[f1].arguments = functions[f2].arguments
  /\ functions[f1].body = functions[f2].body

\* case Eq, the Function* branch.
FunctionEq(f1, f2) ==
  /\ functions[f1].context = functions[f2].context
  /\ functions[f1].arguments = functions[f2].arguments
  /\ functions[f1].body = functions[f2].body

\* case Eq: same alternative on both sides and equal payloads; any mix of
\* alternatives is false.
ValueEq(left, right) ==
  IF left.t # right.t THEN FALSE
  ELSE IF left.t = "None" THEN TRUE
  ELSE IF left.t = "Fun" THEN FunctionEq(left.v, right.v)
  ELSE left.v = right.v

IntCompare(o, a, b) ==
  CASE o = "Lt" -> a < b
    [] o = "Gt" -> a > b
    [] o = "Leq" -> a <= b
    [] o = "Geq" -> a >= b

\* The switch on expr.op, given both operand values.
BinaryResults(o, left, right) ==
  LET ints == left.t = "Int" /\ right.t = "Int"
      bools == left.t = "Bool" /\ right.t = "Bool"
      cast == { Raise("IllegalCastException") }
  IN CASE o = "Add" ->
            IF ints THEN AddResult(left.v, right.v)
            ELSE IF left.t = "Str" /\ right.t = "Str" THEN { Ok(StrV(left.v \o right.v)) }
            ELSE IF left.t = "Str"
            THEN { Converted(right, Ok(StrV(left.v \o valueToString(right)))) }
            ELSE IF right.t = "Str"
            THEN { Converted(left, Ok(StrV(valueToString(left) \o right.v))) }
            ELSE cast
       [] o = "Sub" -> IF ints THEN SubResult(left.v, right.v) ELSE cast
       [] o = "Mul" -> IF ints THEN MulResult(left.v, right.v) ELSE cast
       [] o = "Div" ->
            IF ints
            THEN IF right.v = 0 THEN { Raise("IllegalArithmeticException") }
                 ELSE DivResult(left.v, right.v)
            ELSE cast
       [] o = "Eq" -> { Ok(BoolV(ValueEq(left, right))) }
       [] o \in { "Lt", "Gt", "Leq", "Geq" } ->
            IF ints THEN { Ok(BoolV(IntCompare(o, left.v, right.v))) } ELSE cast
       [] o = "And" -> IF bools THEN { Ok(BoolV(left.v /\ right.v)) } ELSE cast
       [] o = "Or" -> IF bools THEN { Ok(BoolV(left.v \/ right.v)) } ELSE cast

VisitBinaryExpression ==
  /\ Visiting("BinaryExpression")
  /\ Goto(<< Visit(K.node.leftOperand), [op |-> "BinaryRight", node |-> K.node] >> \o Rest)
  /\ UNCHANGED << driver, heap, stack_, hasReturned_, io, hist, ghost >>

\* Mutant of BinaryRight: a false left operand of And and a true left
\* operand of Or decide the result, the right operand is not visited.
BinaryRight_shortCircuit ==
  /\ At("BinaryRight")
  /\ IF (K.node.op = "And" /\ rval_ = BoolV(FALSE)) \/ (K.node.op = "Or" /\ rval_ = BoolV(TRUE))
     THEN Goto(Rest)
     ELSE Goto(<< Visit(K.node.rightOperand),
                  [op |-> "BinaryApply", node |-> K.node, left |-> rval_] >> \o Rest)
  /\ UNCHANGED << driver, heap, stack_, hasReturned_, io, hist, ghost >>

\* Value *left = rval_; expr.rightOperand->accept(*this);
BinaryRight ==
  /\ At("BinaryRight")
  /\ Goto(<< Visit(K.node.rightOperand),
             [op |-> "BinaryApply", node |-> K.node, left |-> rval_] >> \o Rest)
  /\ UNCHANGED << driver, heap, stack_, hasReturned_, io, hist, ghost >>

\* Value *right = rval_; switch (expr.op) ...
BinaryApply ==
  /\ At("BinaryApply")
  /\ \E res \in BinaryResults(K.node.op, K.left, rval_) :
       /\ Yield(res, Rest)
       /\ ghost' = IF K.node.op = "Eq"
                   THEN [ghost EXCEPT !.eq = [done |-> TRUE, left |-> K.left,
                                              right |-> rval_, res |-> res.val.v]]
                   ELSE ghost
  /\ UNCHANGED << driver, heap, stack_, hasReturned_, io, hist >>

\* ------------------------------------------------------- UnaryExpression
UnaryResults(o, operand) ==
  CASE o = "Neg" -> IF operand.t = "Int" THEN NegResult(operand.v)
                    ELSE { Raise("IllegalCastException") }
    [] o = "Not" -> IF operand.t = "Bool" THEN { Ok(BoolV(~operand.v)) }
                    ELSE { Raise("IllegalCastException") }

VisitUnaryExpression ==
  /\ Visiting("UnaryExpression")
  /\ Goto(<< Visit(K.node.operand), [op |-> "UnaryApply", node |-> K.node] >> \o Rest)
  /\ UNCHANGED << driver, heap, stack_, hasReturned_, io, hist, ghost >>

UnaryApply ==
  /\ At("UnaryApply")
  /\ \E res \in UnaryResults(K.node.op, rval_) : Yield(res, Rest)
  /\ UNCHANGED << driver, heap, stack_, hasReturned_, io, hist, ghost >>
\* ------------------------------------------------------------ Assignment
\* "Update existing field or append new one".
\* Mutant of StoreField: the pair is always pushed at the back.
StoreField_append(fields, name, v) == Append(fields, << name, v >>)

StoreField(fields, name, v) ==
  IF HasField(fields, name)
  THEN LET i == CHOOSE i \in 1..Len(fields) :
                  /\ fields[i][1] = name
                  /\ \A j \in 1..(i - 1) : fields[j][1] # name
       IN [fields EXCEPT ![i] = << name, v >>]
  ELSE Append(fields, << name, v >>)

VisitAssignment ==
  /\ Visiting("Assignment")
  /\ Goto(CASE K.node.lhs.k = "Identifier" ->
                 << Visit(K.node.expr), [op |-> "AssignIdent", node |-> K.node] >> \o Rest
            [] K.node.lhs.k = "FieldDereference" ->
                 << Visit(K.node.lhs.baseExpression),
                    [op |-> "AssignField1", node |-> K.node] >> \o Rest
            [] K.node.lhs.k = "IndexExpression" ->
                 << Visit(K.node.lhs.baseExpression),
                    [op |-> "AssignIndex1", node |-> K.node] >> \o Rest)
  /\ UNCHANGED << driver, heap, stack_, hasReturned_, io, hist, ghost >>

\* Value *v = rval_; lookupWrite(ident->name, stack_.top())->setVar(ident->name, v);
AssignIdent ==
  /\ At("AssignIdent")
  /\ LET name == K.node.lhs.name
         targetFrame == lookupWrite(name, top)
     IN /\ frames' = [frames EXCEPT ![targetFrame].variables = setVar(@, name, rval_)]
        /\ written' = Remember(written, << targetFrame, name >>, rval_)
        /\ ghost' = [ghost EXCEPT !.write =
                       [name |-> name, cur |-> top, target |-> targetFrame,
                        nfun |-> Len(functions)]]
  /\ Goto(Rest)
  /\ UNCHANGED << driver, functions, records, stack_, hasReturned_, io, origin >>

\* Value *a1 = rval_; assn.expr->accept(*this);
AssignField1 ==
  /\ At("AssignField1")
  /\ Goto(<< Visit(K.node.expr),
             [op |-> "AssignField2", node |-> K.node, a1 |-> rval_] >> \o Rest)
  /\ UNCHANGED << driver, heap, stack_, hasReturned_, io, hist, ghost >>

AssignField2 ==
  /\ At("AssignField2")
  /\ IF K.a1.t # "Rec"
     THEN Yield(Raise("IllegalCastException"), Rest) /\ UNCHANGED << records, ghost >>
     ELSE /\ records' = [records EXCEPT ![K.a1.v] = StoreField(@, K.node.lhs.field, rval_)]
          /\ ghost' = [ghost EXCEPT !.stored = @ \cup { K.a1.v }]
          /\ Goto(Rest)
  /\ UNCHANGED << driver, frames, functions, stack_, hasReturned_, io, hist >>

\* Value *a1 = rval_; indexExpr->index->accept(*this);
AssignIndex1 ==
  /\ At("AssignIndex1")
  /\ Goto(<< Visit(K.node.lhs.index),
             [op |-> "AssignIndex2", node |-> K.node, a1 |-> rval_] >> \o Rest)
  /\ UNCHANGED << driver, heap, stack_, hasReturned_, io, hist, ghost >>

\* std::string fieldName = valueToString(indexValue); assn.expr->accept(*this);
AssignIndex2 ==
  /\ At("AssignIndex2")
  /\ IF Exhausts(rval_)
     THEN Yield(Raise("SIGSEGV"), Rest)
     ELSE Goto(<< Visit(K.node.expr),
                  [op |-> "AssignIndex3", a1 |-> K.a1, indexValue |-> rval_,
                   fieldName |-> valueToString(rval_)] >>
               \o Rest)
  /\ UNCHANGED << driver, heap, stack_, hasReturned_, io, hist, ghost >>

AssignIndex3 ==
  /\ At("AssignIndex3")
  /\ IF K.a1.t # "Rec"
     THEN Yield(Raise("IllegalCastException"), Rest) /\ UNCHANGED << records, ghost >>
     ELSE /\ records' = [records EXCEPT ![K.a1.v] = StoreField(@, K.fieldName, rval_)]
          /\ ghost' = [ghost EXCEPT !.stored = @ \cup { K.a1.v }]
          /\ Goto(Rest)
  /\ UNCHANGED << driver, frames, functions, stack_, hasReturned_, io, hist >>

\* ----------------------------------------------------------- IfStatement
VisitIfStatement ==
  /\ Visiting("IfStatement")
  /\ Goto(<< Visit(K.node.condition), [op |-> "IfBranch", node |-> K.node] >> \o Rest)
  /\ UNCHANGED << driver, heap, stack_, hasReturned_, io, hist, ghost >>

IfBranch ==
  /\ At("IfBranch")
  /\ IF rval_.t # "Bool" THEN Yield(Raise("IllegalCastException"), Rest)
     ELSE IF rval_.v THEN Goto(<< Visit(K.node.thenPart) >> \o Rest)
     ELSE IF K.node.elsePart.k # "nullptr" THEN Goto(<< Visit(K.node.elsePart) >> \o Rest)
     ELSE Goto(Rest)
  /\ UNCHANGED << driver, heap, stack_, hasReturned_, io, hist, ghost >>

\* ------------------------------------------------------------- WhileLoop
VisitWhileLoop ==
  /\ Visiting("WhileLoop")
  /\ Goto(<< Visit(K.node.condition), [op |-> "WhileTest", node |-> K.node] >> \o Rest)
  /\ UNCHANGED << driver, heap, stack_, hasReturned_, io, hist, ghost >>

WhileTest ==
  /\ At("WhileTest")
  /\ IF rval_.t # "Bool" THEN Yield(Raise("IllegalCastException"), Rest)
     ELSE IF rval_.v
     THEN Goto(<< Visit(K.node.body), [op |-> "WhileAfter", node |-> K.node] >> \o Rest)
     ELSE Goto(Rest)
  /\ UNCHANGED << driver, heap, stack_, hasReturned_, io, hist, ghost >>

\* Mutant of WhileRepeats: the loop goes on after a Return in its body.
WhileRepeats_always == TRUE

\* if (!hasReturned_) this->visit(stmt);
WhileRepeats == ~hasReturned_

WhileAfter ==
  /\ At("WhileAfter")
  /\ Goto(IF WhileRepeats THEN << Visit(K.node) >> \o Rest ELSE Rest)
  /\ UNCHANGED << driver, heap, stack_, hasReturned_, io, hist, ghost >>

\* ---------------------------------------------------------------- Block
\* Mutant of BlockBreaks: the loop over the statements never breaks.
BlockBreaks_never == FALSE

\* if (hasReturned_) break;
BlockBreaks == hasReturned_

VisitBlock ==
  /\ Visiting("Block")
  /\ Goto(IF Len(K.node.statements) = 0 THEN Rest
          ELSE << Visit(K.node.statements[1]),
                  [op |-> "BlockNext", node |-> K.node, i |-> 1] >> \o Rest)
  /\ UNCHANGED << driver, heap, stack_, hasReturned_, io, hist, ghost >>

\* After statement i has been visited.
BlockNext ==
  /\ At("BlockNext")
  /\ Goto(IF BlockBreaks \/ K.i = Len(K.node.statements) THEN Rest
          ELSE << Visit(K.node.statements[K.i + 1]),
                  [op |-> "BlockNext", node |-> K.node, i |-> K.i + 1] >> \o Rest)
  /\ UNCHANGED << driver, heap, stack_, hasReturned_, io, hist, ghost >>

\* ------------------------------------------------------- Return, Global
VisitReturn ==
  /\ Visiting("Return")
  /\ Goto(<< Visit(K.node.expression), [op |-> "ReturnSet"] >> \o Rest)
  /\ UNCHANGED << driver, heap, stack_, hasReturned_, io, hist, ghost >>

ReturnSet ==
  /\ At("ReturnSet")
  /\ hasReturned_' = TRUE
  /\ Goto(Rest)
  /\ ghost' = [ghost EXCEPT !.ret = [done |-> TRUE, val |-> rval_]]
  /\ UNCHANGED << driver, heap, stack_, io, hist >>

VisitGlobal ==
  /\ Visiting("Global")
  /\ Goto(Rest)
  /\ UNCHANGED << driver, heap, stack_, hasReturned_, io, hist, ghost >>

\* ------------------------------------------------------------ Identifier
VisitIdentifier ==
  /\ Visiting("Identifier")
  /\ LET res == lookupRead(K.node.name, top)
     IN /\ Yield(IF res.ok THEN Ok(res.val)
                 ELSE Raise("UninitializedVariableException"), Rest)
        /\ ghost' = [ghost EXCEPT !.read =
                       [name |-> K.node.name, cur |-> top, ok |-> res.ok,
                        val |-> IF res.ok THEN res.val ELSE NoneV]]
  /\ UNCHANGED << driver, heap, stack_, hasReturned_, io, hist >>
\* ---------------------------------------------------------------- Record
\* r->fields.push_back({field.first, rval_})
PushField(fields, name, v) == Append(fields, << name, v >>)

\* Record *r = new Record(); then the loop over expr.fields begins.
VisitRecord ==
  /\ Visiting("Record")
  /\ records' = Append(records, << >>)
  /\ LET r == Len(records) + 1
     IN IF Len(K.node.fields) = 0 THEN Yield(Ok(RecV(r)), Rest)
        ELSE Goto(<< Visit(K.node.fields[1][2]),
                     [op |-> "RecordPush", node |-> K.node, i |-> 1, r |-> r] >> \o Rest)
  /\ UNCHANGED << driver, frames, functions, stack_, hasReturned_, io, hist, ghost >>

\* After field i's expression has been visited.
RecordPush ==
  /\ At("RecordPush")
  /\ records' = [records EXCEPT ![K.r] = PushField(@, K.node.fields[K.i][1], rval_)]
  /\ IF K.i = Len(K.node.fields) THEN Yield(Ok(RecV(K.r)), Rest)
     ELSE Goto(<< Visit(K.node.fields[K.i + 1][2]),
                  [op |-> "RecordPush", node |-> K.node, i |-> K.i + 1, r |-> K.r] >>
               \o Rest)
  /\ UNCHANGED << driver, frames, functions, stack_, hasReturned_, io, hist, ghost >>

\* ------------------------------------- FieldDereference, IndexExpression
\* "Search for field in vector": the first match, or a fresh None.
ReadField(fields, name) ==
  IF HasField(fields, name) THEN FirstField(fields, name) ELSE NoneV

VisitFieldDereference ==
  /\ Visiting("FieldDereference")
  /\ Goto(<< Visit(K.node.baseExpression), [op |-> "FieldGet", node |-> K.node] >> \o Rest)
  /\ UNCHANGED << driver, heap, stack_, hasReturned_, io, hist, ghost >>

FieldGet ==
  /\ At("FieldGet")
  /\ IF rval_.t = "Rec"
     THEN LET v == ReadField(records[rval_.v], K.node.field)
          IN /\ Yield(Ok(v), Rest)
             /\ ghost' = [ghost EXCEPT !.get =
                            [rec |-> rval_.v, name |-> K.node.field, val |-> v]]
     ELSE Yield(Raise("IllegalCastException"), Rest) /\ UNCHANGED ghost
  /\ UNCHANGED << driver, heap, stack_, hasReturned_, io, hist >>

VisitIndexExpression ==
  /\ Visiting("IndexExpression")
  /\ Goto(<< Visit(K.node.baseExpression), [op |-> "IndexBase", node |-> K.node] >> \o Rest)
  /\ UNCHANGED << driver, heap, stack_, hasReturned_, io, hist, ghost >>

\* Value *a1 = rval_; the Record* test comes before the index is visited.
IndexBase ==
  /\ At("IndexBase")
  /\ IF rval_.t = "Rec"
     THEN Goto(<< Visit(K.node.index), [op |-> "IndexGet", record |-> rval_.v] >> \o Rest)
     ELSE Yield(Raise("IllegalCastException"), Rest)
  /\ UNCHANGED << driver, heap, stack_, hasReturned_, io, hist, ghost >>

IndexGet ==
  /\ At("IndexGet")
  /\ IF Exhausts(rval_)
     THEN Yield(Raise("SIGSEGV"), Rest) /\ UNCHANGED ghost
     ELSE LET fieldName == valueToString(rval_)
              v == ReadField(records[K.record], fieldName)
          IN /\ Yield(Ok(v), Rest)
             /\ ghost' = [ghost EXCEPT !.get =
                            [rec |-> K.record, name |-> fieldName, val |-> v]]
  /\ UNCHANGED << driver, heap, stack_, hasReturned_, io, hist >>

\* --------------------------------------------------- FunctionDeclaration
\* new Function{stack_.top(), stmt.arguments, stmt.body.get()}
NewFunction(node, current) ==
  [context |-> current, arguments |-> node.arguments, body |-> node.body]

VisitFunctionDeclaration ==
  /\ Visiting("FunctionDeclaration")
  /\ functions' = Append(functions, NewFunction(K.node, top))
  /\ Yield(Ok(FunV(Len(functions) + 1)), Rest)
  /\ UNCHANGED << driver, frames, records, stack_, hasReturned_, io, hist, ghost >>
\* ------------------------------------------------------------------ Call
\* Mutant of CallDispatch: the natives are dispatched before the arity check.
CallDispatch_nativesFirst(target, nargs) ==
  IF target.t # "Fun" THEN "IllegalCastException"
  ELSE IF target.v = printNative_ THEN "print"
  ELSE IF target.v = inputNative_ THEN "input"
  ELSE IF target.v = intcastNative_ THEN "intcast"
  ELSE IF Len(functions[target.v].arguments) # nargs THEN "RuntimeException"
  ELSE "user"

\* What visit(Call&) does once the target value is known: the two checks,
\* then the dispatch on the Function* (natives by pointer comparison).
CallDispatch(target, nargs) ==
  IF target.t # "Fun" THEN "IllegalCastException"
  ELSE IF Len(functions[target.v].arguments) # nargs THEN "RuntimeException"
  ELSE IF target.v = printNative_ THEN "print"
  ELSE IF target.v = inputNative_ THEN "input"
  ELSE IF target.v = intcastNative_ THEN "intcast"
  ELSE "user"

\* Mutant of CalleeParent: new Frame(stack_.top()), the caller's frame.
CalleeParent_caller(f) == top

\* new Frame(f->context)
CalleeParent(f) == functions[f].context

\* f->context->getGlobal()->globalFrame
CalleeGlobalFrame(f) == frames[functions[f].context].globalFrame

\* Mutant of CalleeLocals: no assigned name is bound to None.
CalleeLocals_none(f) == {}

\* The assigned names the call binds to None: not parameters, not globals.
CalleeLocals(f) ==
  LET body == BodyAt(functions[f].body)
      arguments == functions[f].arguments
  IN { x \in extractAssigns(body) :
         /\ \A i \in 1..Len(arguments) : arguments[i] # x
         /\ x \notin extractGlobals(body) }

\* The frame pushed for a call of f with argument values args: locals first,
\* then the parameters in order (a repeated parameter name keeps the last).
CalleeFrame(f, args) ==
  LET arguments == functions[f].arguments
      params == { arguments[i] : i \in 1..Len(arguments) }
      last(x) == CHOOSE i \in 1..Len(arguments) :
                   arguments[i] = x /\ \A j \in (i + 1)..Len(arguments) : arguments[j] # x
  IN [ variables |-> [ x \in CalleeLocals(f) \cup params |->
                         IF x \in params THEN args[last(x)] ELSE NoneV ],
       parent |-> CalleeParent(f),
       globals |-> extractGlobals(BodyAt(functions[f].body)),
       globalFrame |-> CalleeGlobalFrame(f) ]

\* Mutant of EnterCall: the new frame takes the place of the top frame.
EnterCall_replace(f, args, rest) ==
  /\ Len(stack_) < MaxDepth
  /\ frames' = Append(frames, CalleeFrame(f, args))
  /\ stack_' = [stack_ EXCEPT ![Len(stack_)] = Len(frames) + 1]
  /\ hasReturned_' = FALSE
  /\ origin' = Append(origin, [fn |-> f, caller |-> top])
  /\ Goto(<< Visit(BodyAt(functions[f].body)),
             [op |-> "CallExit", oldReturnState |-> hasReturned_] >> \o rest)

\* stack_.push(newFrame); oldReturnState = hasReturned_; hasReturned_ = false;
\* f->body->accept(*this);
EnterCall(f, args, rest) ==
  /\ Len(stack_) < MaxDepth
  /\ frames' = Append(frames, CalleeFrame(f, args))
  /\ stack_' = Append(stack_, Len(frames) + 1)
  /\ hasReturned_' = FALSE
  /\ origin' = Append(origin, [fn |-> f, caller |-> top])
  /\ Goto(<< Visit(BodyAt(functions[f].body)),
             [op |-> "CallExit", oldReturnState |-> hasReturned_] >> \o rest)

VisitCall ==
  /\ Visiting("Call")
  /\ Goto(<< Visit(K.node.targetExpression),
             [op |-> "CallCheck", node |-> K.node,
              pre |-> [out |-> out, frames |-> frames, records |-> records]] >> \o Rest)
  /\ UNCHANGED << driver, heap, stack_, hasReturned_, io, hist, ghost >>

\* History of a call's checks: the target's tag, the parameter and argument
\* counts, and the output and heap as they were when the call was visited.
Checked(target, node, pre) ==
  [ done |-> TRUE, tag |-> target.t,
    nparams |-> IF target.t = "Fun" THEN Len(functions[target.v].arguments) ELSE 0,
    nargs |-> Len(node.arguments),
    native |-> target.t = "Fun" /\ functions[target.v].body = 0,
    targetKind |-> node.targetExpression.k,
    pre |-> pre ]

CallCheck ==
  /\ At("CallCheck")
  /\ LET d == CallDispatch(rval_, Len(K.node.arguments))
         first == << Visit(K.node.arguments[1]) >>
     IN /\ d # "input"
        /\ IF d \in { "IllegalCastException", "RuntimeException" }
           THEN Yield(Raise(d), Rest) /\ UNCHANGED << frames, stack_, hasReturned_, origin >>
           ELSE IF d = "print"
           THEN /\ Goto(first \o << [op |-> "PrintOut"] >> \o Rest)
                /\ UNCHANGED << frames, stack_, hasReturned_, origin >>
           ELSE IF d = "intcast"
           THEN /\ Goto(first \o << [op |-> "IntcastApply"] >> \o Rest)
                /\ UNCHANGED << frames, stack_, hasReturned_, origin >>
           ELSE IF Len(K.node.arguments) = 0
           THEN EnterCall(rval_.v, << >>, Rest)
           ELSE /\ Goto(first \o << [op |-> "CallArg", node |-> K.node, f |-> rval_.v,
                                     args |-> << >>] >> \o Rest)
                /\ UNCHANGED << frames, stack_, hasReturned_, origin >>
  /\ ghost' = [ghost EXCEPT !.check = Checked(rval_, K.node, K.pre)]
  /\ UNCHANGED << driver, functions, records, io, written >>

\* std::getline(std::cin, input); rval_ = new Value(input);
CallInput ==
  /\ At("CallCheck")
  /\ CallDispatch(rval_, Len(K.node.arguments)) = "input"
  /\ \E line \in InputLines : Yield(Ok(StrV(line)), Rest)
  /\ ghost' = [ghost EXCEPT !.check = Checked(rval_, K.node, K.pre)]
  /\ UNCHANGED << driver, heap, stack_, hasReturned_, io, hist >>

\* args.push_back(rval_); then the next argument, or the call proper.
CallArg ==
  /\ At("CallArg")
  /\ LET args == Append(K.args, rval_)
     IN IF Len(args) = Len(K.node.arguments)
        THEN EnterCall(K.f, args, Rest)
        ELSE /\ Goto(<< Visit(K.node.arguments[Len(args) + 1]),
                        [K EXCEPT !.args = args] >> \o Rest)
             /\ UNCHANGED << frames, stack_, hasReturned_, origin >>
  /\ UNCHANGED << driver, functions, records, io, written, ghost >>

\* if (!hasReturned_) rval_ = new Value(); hasReturned_ = oldReturnState; stack_.pop();
CallExit ==
  /\ At("CallExit")
  /\ rval_' = IF hasReturned_ THEN rval_ ELSE NoneV
  /\ hasReturned_' = K.oldReturnState
  /\ stack_' = SubSeq(stack_, 1, Len(stack_) - 1)
  /\ kont' = Rest
  /\ ghost' = [ghost EXCEPT !.call = [fn |-> origin[top].fn, frame |-> top,
                                      returned |-> hasReturned_, val |-> rval_']]
  /\ UNCHANGED << driver, heap, io, hist, fault >>

\* std::cout << valueToString(rval_) << std::endl; rval_ = new Value();
PrintOut ==
  /\ At("PrintOut")
  /\ out' = IF Exhausts(rval_) THEN out ELSE Append(out, valueToString(rval_))
  /\ Yield(Converted(rval_, Ok(NoneV)), Rest)
  /\ UNCHANGED << driver, heap, stack_, hasReturned_, err, exitCode, hist, ghost >>

\* The intcast native applied to its argument value.
intcast(v) ==
  IF v.t = "Int" THEN Ok(IntV(v.v))
  ELSE IF v.t = "Str"
  THEN IF v.v = << >> \/ (Head(v.v) # "-" /\ ~isdigit(Head(v.v)))
       THEN Raise("IllegalCastException")
       ELSE IF \E i \in 2..Len(v.v) : ~isdigit(v.v[i])
       THEN Raise("IllegalCastException")
       ELSE Ok(IntV(atoi(v.v)))
  ELSE Raise("IllegalCastException")

IntcastApply ==
  /\ At("IntcastApply")
  /\ Yield(intcast(rval_), Rest)
  /\ UNCHANGED << driver, heap, stack_, hasReturned_, io, hist, ghost >>

\* ------------------------------------------------------------------ main
\* interpret() has returned or thrown: main reports the exception on
\* std::cerr and returns 1, or returns 0.  A trap on undefined arithmetic
\* is no std::exception: the process is aborted with nothing reported, and
\* so is it killed when valueToString has exhausted the stack.
Exit ==
  /\ pc = "interpret"
  /\ kont = << >>
  /\ exitCode = -1
  /\ exitCode' = IF fault = "none" THEN 0
                 ELSE IF fault = "undefined" THEN 134
                 ELSE IF fault = "SIGSEGV" THEN 139 ELSE 1
  /\ err' = IF fault \in { "none", "undefined", "SIGSEGV" } THEN err ELSE Append(err, fault)
  /\ UNCHANGED << driver, kont, heap, stack_, rval_, hasReturned_, out, fault, hist, ghost >>

Next ==
  \/ VisitIntegerConstant \/ VisitBooleanConstant \/ VisitStringConstant
  \/ VisitNoneConstant
  \/ VisitBinaryExpression \/ BinaryRight \/ BinaryApply
  \/ VisitUnaryExpression \/ UnaryApply
  \/ VisitAssignment \/ AssignIdent \/ AssignField1 \/ AssignField2
  \/ AssignIndex1 \/ AssignIndex2 \/ AssignIndex3
  \/ VisitIfStatement \/ IfBranch
  \/ VisitWhileLoop \/ WhileTest \/ WhileAfter
  \/ VisitBlock \/ BlockNext
  \/ VisitReturn \/ ReturnSet \/ VisitGlobal
  \/ VisitIdentifier
  \/ VisitRecord \/ RecordPush
  \/ VisitFieldDereference \/ FieldGet
  \/ VisitIndexExpression \/ IndexBase \/ IndexGet
  \/ VisitFunctionDeclaration
  \/ VisitCall \/ CallCheck \/ CallInput \/ CallArg \/ CallExit
  \/ PrintOut \/ IntcastApply
  \/ Exit

Spec == Init /\ [][Next]_vars

\* ------------------------------------------------------------ Lexer::lex
\* The Interpreter object, which main() leaves alone until interpret().
interp == << kont, heap, stack_, rval_, hasReturned_, fault, hist, ghost >>

\* while (std::getline(lines, line)): the next line is taken, numLines++ and
\* the for loop over it starts at i = 0.
LexGetline ==
  /\ pc = "lex"
  /\ ~lexer.inFor
  /\ lexer.rest # << >>
  /\ lexer' = [lexer EXCEPT !.line = getline(lexer.rest).line,
                            !.rest = getline(lexer.rest).rest,
                            !.numLines = @ + 1,
                            !.i = 0,
                            !.inFor = TRUE]
  /\ UNCHANGED << prog, pc, ast, interp, io, vm >>

\* The test of the for loop and one pass of its body.  handleBrackets is
\* called on what readSymbol read; no other reader makes a bracket token.
LexFor ==
  /\ pc = "lex"
  /\ lexer.inFor
  /\ lexer' =
       IF lexer.i >= Len(lexer.line) \/ isComment(lexer.line, lexer.i)
       THEN [lexer EXCEPT !.inFor = FALSE]
       ELSE IF isWhitespace(CharAt(lexer.line, lexer.i))
       THEN [lexer EXCEPT !.i = @ + 1]
       ELSE LET t == scan(lexer.line, lexer.i, lexer.numLines) IN
            [addToken(handleBrackets(lexer, t.tok), t.tok) EXCEPT !.i = t.i]
  /\ UNCHANGED << prog, pc, ast, interp, io, vm >>

\* while (!stack_.empty()): one Error token for the opener on top, popped.
LexUnmatched ==
  /\ pc = "lex"
  /\ ~lexer.inFor
  /\ lexer.rest = << >>
  /\ lexer.stack_ # << >>
  /\ LET t == lexer.stack_[Len(lexer.stack_)] IN
     lexer' = [addToken(lexer, Token("Error", << "unmatched '" >> \o t.str \o << "'" >>, t.line))
                 EXCEPT !.stack_ = SubSeq(@, 1, Len(@) - 1)]
  /\ UNCHANGED << prog, pc, ast, interp, io, vm >>

\* addToken(EoF) and return tokens_: main() has the tokens.
LexEoF ==
  /\ pc = "lex"
  /\ ~lexer.inFor
  /\ lexer.rest = << >>
  /\ lexer.stack_ = << >>
  /\ lexer' = addToken(lexer, Token("EoF", << >>, lexer.numLines))
  /\ pc' = "parse"
  /\ UNCHANGED << prog, ast, interp, io, vm >>

LexNext == LexGetline \/ LexFor \/ LexUnmatched \/ LexEoF

\* ------------------------------------------------- main, case INTERPRET
\* Mutant of anyError: only the first token is looked at.
anyError_first(ts) == ts[1].type = "Error"

\* The loop of main() over the tokens lex() returned.
anyError(ts) == \E k \in DOMAIN ts : ts[k].type = "Error"

\* Lexer::printErrors: a line for every token but EoF.
printErrors(ts) ==
  [ k \in 1..(Len(ts) - 1) |->
      Text(to_string(ts[k].line)
           \o << CASE ts[k].type = "Error" -> " ERROR line"
                   [] ts[k].type = "StringLiteral" -> " STRINGLITERAL"
                   [] ts[k].type = "IntLiteral" -> " INTLITERAL"
                   [] ts[k].type = "BooleanLiteral" -> " BOOLEANLITERAL"
                   [] ts[k].type = "Identifier" -> " IDENTIFIER"
                   [] OTHER -> "",
                 " " >>
           \o ts[k].str) ]

\* The tree Parser::parse returned, as main() holds it: the function bodies
\* are reached by address.
Held(tree) ==
  [ main |-> tree,
    bodies |-> [ a \in { b[1] : b \in Bodies(tree) } |->
                   (CHOOSE b \in Bodies(tree) : b[1] = a)[2] ] ]

\* From the return of lex() to the call of interpret(), or to return 1.
MainParse ==
  /\ pc = "parse"
  /\ IF anyError(lexer.tokens_)
     THEN /\ err' = err \o printErrors(lexer.tokens_)
          /\ exitCode' = 1
          /\ pc' = "done"
          /\ UNCHANGED << ast, kont, out >>
     ELSE LET r == parse(lexer.tokens_) IN
          IF ~r.has_value
          THEN /\ err' = Append(err, "Caught exception: " \o r.what)
               /\ out' = Append(out, << "parse error" >>)
               /\ exitCode' = 1
               /\ pc' = "done"
               /\ UNCHANGED << ast, kont >>
          ELSE /\ ast' = Held(r.value)
               /\ kont' = << Visit(r.value) >>
               /\ pc' = "interpret"
               /\ UNCHANGED io
  /\ UNCHANGED << prog, lexer, heap, stack_, rval_, hasReturned_, fault, hist, ghost, vm >>


\* ------------------------------------------------- lex() on bounded texts
\* The characters texts are made of, and the longest text of all of them.
MaxText == 4
LexChars == { "0", "1", "a", "_", "(", ")", "[", "\"", "/", " ", "\n" }

\* Longer texts, one per comment line (\n and \t written as in C):
\*   0abc
\*   12ab_3 
\*   00a
\*   ([{}])
\*   {(\n)]
\*   "a\nb" "\q
\*   x<=1 //)
\*   a="(";
\*   #\t"\t"
\*   1 @\n_a
LexSamples ==
  {
    << "0", "a", "b", "c" >>,
    << "1", "2", "a", "b", "_", "3", " " >>,
    << "0", "0", "a" >>,
    << "(", "[", "{", "}", "]", ")" >>,
    << "{", "(", "\n", ")", "]" >>,
    << "\"", "a", "\\", "n", "b", "\"", " ", "\"", "\\", "q" >>,
    << "x", "<", "=", "1", " ", "/", "/", ")" >>,
    << "a", "=", "\"", "(", "\"", ";" >>,
    << "#", "\t", "\"", "\t", "\"" >>,
    << "1", " ", "@", "\n", "_", "a" >> }

Texts == UNION { [1..n -> LexChars] : n \in 0..MaxText } \cup LexSamples

LexInit ==
  /\ prog = "text"
  /\ pc = "lex"
  /\ lexer \in { Lexer(t) : t \in Texts }
  /\ ast = NoAst
  /\ kont = << >>
  /\ vm = NoVm
  /\ Constructed

LexSpec == LexInit /\ [][LexNext]_vars

\* main() runs lex() to its end: no step of the loop waits for anything.
LexLive == LexSpec /\ WF_vars(LexNext)

\* --------------------------------------------------------- main() on texts
\* The texts main() is run on with the interpret command; each is written
\* out in the comment above its characters.

\* // constants and operators
\* x = 1; s = "a"; n = None; b = !true;
\* print(-x + 2);
S_Values ==
  << "/", "/", " ", "c", "o", "n", "s", "t", "a", "n", "t", "s", " ", "a",
     "n", "d", " ", "o", "p", "e", "r", "a", "t", "o", "r", "s", "\n", "x",
     " ", "=", " ", "1", ";", " ", "s", " ", "=", " ", "\"", "a", "\"", ";",
     " ", "n", " ", "=", " ", "N", "o", "n", "e", ";", " ", "b", " ", "=",
     " ", "!", "t", "r", "u", "e", ";", "\n", "p", "r", "i", "n", "t", "(",
     "-", "x", " ", "+", " ", "2", ")", ";", "\n" >>

\* r = { a:1; };
\* r.b = 2; r["c"] = r.a;
\* print(r["b"]);
S_Records ==
  << "r", " ", "=", " ", "{", " ", "a", ":", "1", ";", " ", "}", ";", "\n",
     "r", ".", "b", " ", "=", " ", "2", ";", " ", "r", "[", "\"", "c", "\"",
     "]", " ", "=", " ", "r", ".", "a", ";", "\n", "p", "r", "i", "n", "t",
     "(", "r", "[", "\"", "b", "\"", "]", ")", ";", "\n" >>

\* f = fun(k) {
\*   global g; g = k;
\*   while (g < 1) { g = 1; }
\*   if (k == 0) { return k; }
\* };
\* t = input(); n = intcast(t);
\* print(f(n));
S_Function ==
  << "f", " ", "=", " ", "f", "u", "n", "(", "k", ")", " ", "{", "\n", " ",
     " ", "g", "l", "o", "b", "a", "l", " ", "g", ";", " ", "g", " ", "=",
     " ", "k", ";", "\n", " ", " ", "w", "h", "i", "l", "e", " ", "(", "g",
     " ", "<", " ", "1", ")", " ", "{", " ", "g", " ", "=", " ", "1", ";",
     " ", "}", "\n", " ", " ", "i", "f", " ", "(", "k", " ", "=", "=", " ",
     "0", ")", " ", "{", " ", "r", "e", "t", "u", "r", "n", " ", "k", ";",
     " ", "}", "\n", "}", ";", "\n", "t", " ", "=", " ", "i", "n", "p", "u",
     "t", "(", ")", ";", " ", "n", " ", "=", " ", "i", "n", "t", "c", "a",
     "s", "t", "(", "t", ")", ";", "\n", "p", "r", "i", "n", "t", "(", "f",
     "(", "n", ")", ")", ";", "\n" >>

\* print(1); print(1 / 0); print(2);
S_Fault ==
  << "p", "r", "i", "n", "t", "(", "1", ")", ";", " ", "p", "r", "i", "n",
     "t", "(", "1", " ", "/", " ", "0", ")", ";", " ", "p", "r", "i", "n",
     "t", "(", "2", ")", ";" >>

\* print(1);
\* x = 1a;
S_LexError ==
  << "p", "r", "i", "n", "t", "(", "1", ")", ";", "\n", "x", " ", "=", " ",
     "1", "a", ";", "\n" >>

\* print(1); }
S_Unmatched ==
  << "p", "r", "i", "n", "t", "(", "1", ")", ";", " ", "}" >>

\* print(1); (
S_Unclosed ==
  << "p", "r", "i", "n", "t", "(", "1", ")", ";", " ", "(" >>

\* print(1);
\* x = ;
S_Syntax ==
  << "p", "r", "i", "n", "t", "(", "1", ")", ";", "\n", "x", " ", "=", " ",
     ";", "\n" >>

\* print(1); 2;
S_Literal ==
  << "p", "r", "i", "n", "t", "(", "1", ")", ";", " ", "2", ";" >>

\*
S_Empty ==
  << >>

SourceNames == { "values", "records", "function", "fault", "lexerror", "unmatched", "unclosed", "syntax", "literal", "empty" }

Sources ==
  [ n \in SourceNames |->
      CASE n = "values" -> S_Values
        [] n = "records" -> S_Records
        [] n = "function" -> S_Function
        [] n = "fault" -> S_Fault
        [] n = "lexerror" -> S_LexError
        [] n = "unmatched" -> S_Unmatched
        [] n = "unclosed" -> S_Unclosed
        [] n = "syntax" -> S_Syntax
        [] n = "literal" -> S_Literal
        [] n = "empty" -> S_Empty ]

MainInit ==
  /\ prog \in SourceNames
  /\ pc = "lex"
  /\ lexer = Lexer(Sources[prog])
  /\ ast = NoAst
  /\ kont = << >>
  /\ vm = NoVm
  /\ Constructed

MainNext == LexNext \/ MainParse \/ Next

MainSpec == MainInit /\ [][MainNext]_vars

\* ------------------------------------------- parse() on bounded expressions
\* The statement `x = <e>;` for every sequence e of up to MaxExpr of these
\* symbols, and for the longer sequences below.
MaxExpr == 5
ExprSyms == { "a", "|", "&", "!", "==", "<", "+", "-", "*" }

ExprSamples ==
  { << "a", "-", "b", "-", "c" >>,
    << "a", "|", "b", "&", "c" >>,
    << "!", "a", "==", "b" >>,
    << "-", "a", "*", "b" >>,
    << "(", "a", "|", "b", ")", "&", "c" >>,
    << "a", "*", "(", "b", "+", "c", ")" >>,
    << "a", "-", "(", "b", "-", "c", ")" >>,
    << "a", "/", "b", "/", "c", ">=", "d", "-", "-", "e" >>,
    << "a", "|", "b", "&", "!", "c", "==", "d", "<", "e", "+", "f", "*", "-", "g" >> }

Exprs == UNION { [1..n -> ExprSyms] : n \in 1..MaxExpr } \cup ExprSamples

\* The characters of a symbol, and the token lex() makes of it on line 1.
SymChars(y) ==
  CASE y = "==" -> << "=", "=" >> [] y = ">=" -> << ">", "=" >> [] y = "<=" -> << "<", "=" >>
    [] OTHER -> << y >>

SymToken(y) ==
  Token(CASE y \in DOMAIN symbolTable -> symbolTable[y]
          [] y = "==" -> "Eq" [] y = ">=" -> "Geq" [] y = "<=" -> "Leq"
          [] y = "<" -> "Lt" [] y = ">" -> "Gt"
          [] OTHER -> "Identifier",
        SymChars(y), 1)

RECURSIVE Spaced(_)
Spaced(e) == IF e = << >> THEN << >> ELSE << " " >> \o SymChars(Head(e)) \o Spaced(Tail(e))

ExprText(e) == << "x", " ", "=" >> \o Spaced(e) \o << ";" >>

\* The Lexer after lex() has returned on the one-line text of `x = <e>;`.
Lexed(e) ==
  [ input_ |-> ExprText(e),
    tokens_ |-> << SymToken("x"), SymToken("=") >> \o [ k \in 1..Len(e) |-> SymToken(e[k]) ]
                  \o << SymToken(";"), Token("EoF", << >>, 1) >>,
    stack_ |-> << >>, rest |-> << >>, line |-> ExprText(e), i |-> Len(ExprText(e)),
    numLines |-> 1, inFor |-> FALSE ]

ExprInit ==
  /\ prog = "expr"
  /\ pc = "parse"
  /\ lexer \in { Lexed(e) : e \in Exprs }
  /\ ast = NoAst
  /\ kont = << >>
  /\ vm = NoVm
  /\ Constructed

ExprNext == MainParse

ExprSpec == ExprInit /\ [][ExprNext]_vars

\* -------------------------------------------- parse() on bounded statements
\* Every sequence of up to MaxStmt of these symbols as the text of a
\* program, and the longer sequences below.
MaxStmt == 5
StmtSyms == { "x", "=", "(", ")", ";", ".", "1", "{", "}", "fun" }

StmtSamples ==
  { << "x", ".", "x", "=", "1", ";", "x", "(", "1", ")", ";" >>,
    << "x", "(", ")", ".", "x", "=", "1", ";" >>,
    << "x", "[", "1", "]", "=", "1", ";" >>,
    << "x", "[", "1", "]", ";" >>,
    << "{", "x", "=", "1", ";", "}" >>,
    << "fun", "(", ")", "{", "}", ";" >>,
    << "x", "=", "fun", "(", ")", "{", "}", ";" >>,
    << "true", ";" >>,
    << "None", "=", "1", ";" >>,
    << "else", "{", "}" >>,
    << "x", "(", ")", ";", ";" >>,
    << "global", "x", ";", "return", "x", ";", "x", "=", "1", ";" >>,
    << "if", "(", "x", ")", "{", "x", "(", ")", ";", "}" >>,
    << "while", "(", "x", ")", "{", "}", "x", "=", "1", ";" >> }

Stmts == UNION { [1..n -> StmtSyms] : n \in 0..MaxStmt } \cup StmtSamples

WordChars(y) ==
  CASE y = "fun" -> << "f", "u", "n" >>
    [] y = "if" -> << "i", "f" >>
    [] y = "else" -> << "e", "l", "s", "e" >>
    [] y = "while" -> << "w", "h", "i", "l", "e" >>
    [] y = "return" -> << "r", "e", "t", "u", "r", "n" >>
    [] y = "global" -> << "g", "l", "o", "b", "a", "l" >>
    [] y = "None" -> << "N", "o", "n", "e" >>
    [] y = "true" -> << "t", "r", "u", "e" >>
    [] OTHER -> SymChars(y)

\* The token lex() makes of a word or symbol on line 1.
WordToken(y) ==
  IF y \in DOMAIN keywordTable THEN Token(keywordTable[y], WordChars(y), 1)
  ELSE IF isdigit(y) THEN Token("IntLiteral", << y >>, 1)
  ELSE SymToken(y)

RECURSIVE SpacedWords(_)
SpacedWords(e) ==
  IF e = << >> THEN << >> ELSE WordChars(Head(e)) \o << " " >> \o SpacedWords(Tail(e))

\* The Lexer after the for loop of lex() has read the words of the one line:
\* handleBrackets and addToken on every token in turn.
RECURSIVE ReadWords(_, _)
ReadWords(lx, e) ==
  IF e = << >> THEN lx
  ELSE ReadWords(addToken(handleBrackets(lx, WordToken(Head(e))), WordToken(Head(e))),
                 Tail(e))

\* The rest of lex(): an Error for every opener left, then EoF.
RECURSIVE Finish(_)
Finish(lx) ==
  IF lx.stack_ = << >> THEN addToken(lx, Token("EoF", << >>, lx.numLines))
  ELSE LET t == lx.stack_[Len(lx.stack_)] IN
       Finish([addToken(lx, Token("Error", << "unmatched '" >> \o t.str \o << "'" >>, t.line))
                 EXCEPT !.stack_ = SubSeq(@, 1, Len(@) - 1)])

\* The Lexer after lex() has returned on the one-line text of the words.
LexedWords(e) ==
  Finish(ReadWords([Lexer(SpacedWords(e)) EXCEPT !.rest = << >>,
                                                  !.line = SpacedWords(e),
                                                  !.i = Len(SpacedWords(e)),
                                                  !.numLines = IF e = << >> THEN 0 ELSE 1],
                   e))

StmtInit ==
  /\ prog = "stmt"
  /\ pc = "parse"
  /\ lexer \in { LexedWords(e) : e \in Stmts }
  /\ ast = NoAst
  /\ kont = << >>
  /\ vm = NoVm
  /\ Constructed

StmtNext == MainParse

StmtSpec == StmtInit /\ [][StmtNext]_vars

\* ============================================================== bytecode
\* The vm command: bytecode::parse(contents), then bytecode::prettyprint.

\* A keyword as the characters it is written with.
Spelling(w) ==
  CASE w = "None" -> << "N", "o", "n", "e" >>
    [] w = "true" -> << "t", "r", "u", "e" >>
    [] w = "false" -> << "f", "a", "l", "s", "e" >>
    [] w = "function" -> << "f", "u", "n", "c", "t", "i", "o", "n" >>
    [] w = "functions" -> << "f", "u", "n", "c", "t", "i", "o", "n", "s" >>
    [] w = "constants" -> << "c", "o", "n", "s", "t", "a", "n", "t", "s" >>
    [] w = "parameter_count" -> << "p", "a", "r", "a", "m", "e", "t", "e", "r", "_", "c", "o", "u", "n", "t" >>
    [] w = "local_vars" -> << "l", "o", "c", "a", "l", "_", "v", "a", "r", "s" >>
    [] w = "local_ref_vars" -> << "l", "o", "c", "a", "l", "_", "r", "e", "f", "_", "v", "a", "r", "s" >>
    [] w = "names" -> << "n", "a", "m", "e", "s" >>
    [] w = "free_vars" -> << "f", "r", "e", "e", "_", "v", "a", "r", "s" >>
    [] w = "instructions" -> << "i", "n", "s", "t", "r", "u", "c", "t", "i", "o", "n", "s" >>
    [] w = "load_const" -> << "l", "o", "a", "d", "_", "c", "o", "n", "s", "t" >>
    [] w = "load_func" -> << "l", "o", "a", "d", "_", "f", "u", "n", "c" >>
    [] w = "load_local" -> << "l", "o", "a", "d", "_", "l", "o", "c", "a", "l" >>
    [] w = "store_local" -> << "s", "t", "o", "r", "e", "_", "l", "o", "c", "a", "l" >>
    [] w = "load_global" -> << "l", "o", "a", "d", "_", "g", "l", "o", "b", "a", "l" >>
    [] w = "store_global" -> << "s", "t", "o", "r", "e", "_", "g", "l", "o", "b", "a", "l" >>
    [] w = "push_ref" -> << "p", "u", "s", "h", "_", "r", "e", "f" >>
    [] w = "load_ref" -> << "l", "o", "a", "d", "_", "r", "e", "f" >>
    [] w = "store_ref" -> << "s", "t", "o", "r", "e", "_", "r", "e", "f" >>
    [] w = "alloc_record" -> << "a", "l", "l", "o", "c", "_", "r", "e", "c", "o", "r", "d" >>
    [] w = "field_load" -> << "f", "i", "e", "l", "d", "_", "l", "o", "a", "d" >>
    [] w = "field_store" -> << "f", "i", "e", "l", "d", "_", "s", "t", "o", "r", "e" >>
    [] w = "index_load" -> << "i", "n", "d", "e", "x", "_", "l", "o", "a", "d" >>
    [] w = "index_store" -> << "i", "n", "d", "e", "x", "_", "s", "t", "o", "r", "e" >>
    [] w = "alloc_closure" -> << "a", "l", "l", "o", "c", "_", "c", "l", "o", "s", "u", "r", "e" >>
    [] w = "call" -> << "c", "a", "l", "l" >>
    [] w = "return" -> << "r", "e", "t", "u", "r", "n" >>
    [] w = "add" -> << "a", "d", "d" >>
    [] w = "sub" -> << "s", "u", "b" >>
    [] w = "mul" -> << "m", "u", "l" >>
    [] w = "div" -> << "d", "i", "v" >>
    [] w = "neg" -> << "n", "e", "g" >>
    [] w = "gt" -> << "g", "t" >>
    [] w = "geq" -> << "g", "e", "q" >>
    [] w = "eq" -> << "e", "q" >>
    [] w = "and" -> << "a", "n", "d" >>
    [] w = "or" -> << "o", "r" >>
    [] w = "not" -> << "n", "o", "t" >>
    [] w = "goto" -> << "g", "o", "t", "o" >>
    [] w = "if" -> << "i", "f" >>
    [] w = "dup" -> << "d", "u", "p" >>
    [] w = "swap" -> << "s", "w", "a", "p" >>
    [] w = "pop" -> << "p", "o", "p" >>

keyword_to_token ==
  [ w \in { "None", "true", "false", "function", "functions", "constants",
            "parameter_count", "local_vars", "local_ref_vars", "names", "free_vars",
            "instructions", "load_const", "load_func", "load_local", "store_local",
            "load_global", "store_global", "push_ref", "load_ref", "store_ref",
            "alloc_record", "field_load", "field_store", "index_load", "index_store",
            "alloc_closure", "call", "return", "add", "sub", "mul", "div", "neg", "gt",
            "geq", "eq", "and", "or", "not", "goto", "if", "dup", "swap", "pop" } |->
      CASE w = "None" -> "NONE"
        [] w = "true" -> "TRUE"
        [] w = "false" -> "FALSE"
        [] w = "function" -> "FUNCTION"
        [] w = "functions" -> "FUNCTIONS"
        [] w = "constants" -> "CONSTANTS"
        [] w = "parameter_count" -> "PARAMETER_COUNT"
        [] w = "local_vars" -> "LOCAL_VARS"
        [] w = "local_ref_vars" -> "LOCAL_REF_VARS"
        [] w = "names" -> "NAMES"
        [] w = "free_vars" -> "FREE_VARS"
        [] w = "instructions" -> "INSTRUCTIONS"
        [] w = "load_const" -> "LOAD_CONST"
        [] w = "load_func" -> "LOAD_FUNC"
        [] w = "load_local" -> "LOAD_LOCAL"
        [] w = "store_local" -> "STORE_LOCAL"
        [] w = "load_global" -> "LOAD_GLOBAL"
        [] w = "store_global" -> "STORE_GLOBAL"
        [] w = "push_ref" -> "PUSH_REF"
        [] w = "load_ref" -> "LOAD_REF"
        [] w = "store_ref" -> "STORE_REF"
        [] w = "alloc_record" -> "ALLOC_RECORD"
        [] w = "field_load" -> "FIELD_LOAD"
        [] w = "field_store" -> "FIELD_STORE"
        [] w = "index_load" -> "INDEX_LOAD"
        [] w = "index_store" -> "INDEX_STORE"
        [] w = "alloc_closure" -> "ALLOC_CLOSURE"
        [] w = "call" -> "CALL"
        [] w = "return" -> "RETURN"
        [] w = "add" -> "ADD"
        [] w = "sub" -> "SUB"
        [] w = "mul" -> "MUL"
        [] w = "div" -> "DIV"
        [] w = "neg" -> "NEG"
        [] w = "gt" -> "GT"
        [] w = "geq" -> "GEQ"
        [] w = "eq" -> "EQ"
        [] w = "and" -> "AND"
        [] w = "or" -> "OR"
        [] w = "not" -> "NOT"
        [] w = "goto" -> "GOTO"
        [] w = "if" -> "IF"
        [] w = "dup" -> "DUP"
        [] w = "swap" -> "SWAP"
        [] w = "pop" -> "POP" ]

symbol_to_token ==
  [ c \in { "[", "]", "(", ")", "{", "}", "=", "," } |->
      CASE c = "[" -> "LBRACKET" [] c = "]" -> "RBRACKET" [] c = "(" -> "LPAREN"
        [] c = ")" -> "RPAREN" [] c = "{" -> "LBRACE" [] c = "}" -> "RBRACE"
        [] c = "=" -> "ASSIGN" [] c = "," -> "COMMA" ]

\* bytecode::Token; the positions it carries only appear in diagnostics.
bytecode_Token(kind, text) == [kind |-> kind, text |-> text]

is_comment(c) == c # "\r" /\ c # "\n"
is_identifier_start(c) == isalpha(c) \/ c = "_"
is_identifier_continue(c) == isalnum(c) \/ c = "_"

\* take_while<predicate>(): the length of the longest prefix of rest, from
\* index i on, whose characters all satisfy the predicate that is named.
RECURSIVE take_while(_, _, _)
take_while(rest, predicate, i) ==
  IF i < Len(rest)
     /\ ( CASE predicate = "is_comment" -> is_comment(rest[i + 1])
            [] predicate = "isdigit" -> isdigit(rest[i + 1])
            [] predicate = "is_identifier_continue" -> is_identifier_continue(rest[i + 1]) )
  THEN take_while(rest, predicate, i + 1)
  ELSE i

\* Lexer::consume(n) as the rest it leaves.
consume_n(rest, n) == SubSeq(rest, n + 1, Len(rest))

\* What one of the lex_ functions did: nothing, a token and the rest after
\* it, characters skipped, or std::exit(1).
Lexed1(tok, rest) == [has |-> TRUE, exit |-> FALSE, tok |-> tok, rest |-> rest]
LexExit == [has |-> FALSE, exit |-> TRUE]

lex_comment(rest) ==
  IF Len(rest) >= 2 /\ rest[1] = "/" /\ rest[2] = "/"
  THEN [has |-> TRUE, rest |-> consume_n(rest, take_while(rest, "is_comment", 0))]
  ELSE nullopt

lex_symbol(rest) ==
  IF rest[1] \in DOMAIN symbol_to_token
  THEN Lexed1(bytecode_Token(symbol_to_token[rest[1]], << rest[1] >>), consume_n(rest, 1))
  ELSE nullopt

\* A lone '-' is put back and no token is produced.
lex_intliteral(rest) ==
  IF isdigit(rest[1]) \/ rest[1] = "-"
  THEN LET sign == IF rest[1] = "-" THEN 1 ELSE 0
           n == take_while(rest, "isdigit", sign)
       IN IF n > sign
          THEN Lexed1(bytecode_Token("INT", SubSeq(rest, 1, n)), consume_n(rest, n))
          ELSE nullopt
  ELSE nullopt

lex_identifier_or_keyword(rest) ==
  IF is_identifier_start(rest[1])
  THEN LET n == take_while(rest, "is_identifier_continue", 0)
           text == SubSeq(rest, 1, n)
       IN Lexed1(bytecode_Token(IF Text(text) \in DOMAIN keyword_to_token
                                THEN keyword_to_token[Text(text)]
                                ELSE "IDENTIFIER", text),
                 consume_n(rest, n))
  ELSE nullopt

\* Lexer::escape_string: a backslash and the character after it become one.
RECURSIVE escape_string(_)
escape_string(str) ==
  IF str = << >> THEN << >>
  ELSE IF str[1] = "\\" /\ Len(str) > 1
  THEN << ( CASE str[2] = "n" -> "\n" [] str[2] = "t" -> "\t" [] OTHER -> str[2] ) >>
       \o escape_string(SubSeq(str, 3, Len(str)))
  ELSE << str[1] >> \o escape_string(Tail(str))

\* The while loop of lex_stringliteral from index j (counted from 1) on: the
\* index of the closing quote, or 0 when the loop ends in std::exit(1) (an
\* invalid escape sequence, or the end of the input).
RECURSIVE closing_quote(_, _)
closing_quote(rest, j) ==
  IF j > Len(rest) THEN 0
  ELSE IF rest[j] = "\"" THEN j
  ELSE IF rest[j] # "\\" THEN closing_quote(rest, j + 1)
  ELSE IF j + 1 > Len(rest) THEN 0
  ELSE IF rest[j + 1] \in { "\\", "n", "t", "\"" } THEN closing_quote(rest, j + 2)
  ELSE 0

lex_stringliteral(rest) ==
  IF rest[1] = "\""
  THEN LET j == closing_quote(rest, 2)
       IN IF j = 0 THEN LexExit
          ELSE Lexed1(bytecode_Token("STRING", escape_string(SubSeq(rest, 2, j - 1))),
                      consume_n(rest, j))
  ELSE nullopt

\* std::isspace in the "C" locale.
isspace(c) == c \in { " ", "\t", "\n", "\r", "\f" }

\* One iteration of the while loop of Lexer::lex on a non-empty rest.
lex_iteration(rest) ==
  IF lex_comment(rest).has THEN [exit |-> FALSE, rest |-> lex_comment(rest).rest, toks |-> << >>]
  ELSE IF lex_symbol(rest).has
  THEN [exit |-> FALSE, rest |-> lex_symbol(rest).rest, toks |-> << lex_symbol(rest).tok >>]
  ELSE IF lex_intliteral(rest).has
  THEN [exit |-> FALSE, rest |-> lex_intliteral(rest).rest, toks |-> << lex_intliteral(rest).tok >>]
  ELSE IF lex_identifier_or_keyword(rest).has
  THEN [exit |-> FALSE, rest |-> lex_identifier_or_keyword(rest).rest,
        toks |-> << lex_identifier_or_keyword(rest).tok >>]
  ELSE IF lex_stringliteral(rest).has
  THEN [exit |-> FALSE, rest |-> lex_stringliteral(rest).rest,
        toks |-> << lex_stringliteral(rest).tok >>]
  ELSE IF lex_stringliteral(rest) = LexExit THEN [exit |-> TRUE]
  ELSE IF isspace(rest[1]) THEN [exit |-> FALSE, rest |-> consume_n(rest, 1), toks |-> << >>]
  ELSE [exit |-> TRUE]

\* parse_function as the sequence of its steps: a token kind is a consume()
\* of that kind, a member of Function is the call that parses it.
parse_function_steps ==
  << "FUNCTION", "LBRACE", "FUNCTIONS", "ASSIGN", "LBRACKET", "functions_", "RBRACKET",
     "COMMA", "CONSTANTS", "ASSIGN", "LBRACKET", "constants_", "RBRACKET", "COMMA",
     "PARAMETER_COUNT", "ASSIGN", "parameter_count_", "COMMA", "LOCAL_VARS", "ASSIGN",
     "LBRACKET", "local_vars_", "RBRACKET", "COMMA", "LOCAL_REF_VARS", "ASSIGN",
     "LBRACKET", "local_reference_vars_", "RBRACKET", "COMMA", "FREE_VARS", "ASSIGN",
     "LBRACKET", "free_vars_", "RBRACKET", "COMMA", "NAMES", "ASSIGN", "LBRACKET",
     "names_", "RBRACKET", "COMMA", "INSTRUCTIONS", "ASSIGN", "LBRACKET", "instructions",
     "RBRACKET", "RBRACE" >>

\* The message of each consume() of parse_function, up to " at line".
parse_function_messages ==
  << "Expected 'function' keyword",
     "Expected '{' after function",
     "Expected 'functions' keyword",
     "Expected '=' after 'functions'",
     "Expected '[' after 'functions ='",
     "",
     "Expected ']' after functions list",
     "Expected ',' after functions list",
     "Expected 'constants' keyword",
     "Expected '=' after 'constants'",
     "Expected '[' after 'constants ='",
     "",
     "Expected ']' after constants list",
     "Expected ',' after constants list",
     "Expected 'parameter_count' keyword",
     "Expected '=' after 'parameter_count'",
     "Expected integer for parameter count",
     "Expected ',' after parameter count",
     "Expected 'local_vars' keyword",
     "Expected '=' after 'local_vars'",
     "Expected '[' after 'local_vars ='",
     "",
     "Expected ']' after local variables list",
     "Expected ',' after local variables list",
     "Expected 'local_ref_vars' keyword",
     "Expected '=' after 'local_ref_vars'",
     "Expected '[' after 'local_ref_vars ='",
     "",
     "Expected ']' after local reference variables list",
     "Expected ',' after local reference variables list",
     "Expected 'free_vars' keyword",
     "Expected '=' after 'free_vars'",
     "Expected '[' after 'free_vars ='",
     "",
     "Expected ']' after free variables list",
     "Expected ',' after free variables list",
     "Expected 'names' keyword",
     "Expected '=' after 'names'",
     "Expected '[' after 'names ='",
     "",
     "Expected ']' after names list",
     "Expected ',' after names list",
     "Expected 'instructions' keyword",
     "Expected '=' after 'instructions'",
     "Expected '[' after 'instructions ='",
     "",
     "Expected ']' after instructions list",
     "Expected '}' to end function" >>

\* ---- bytecode::Parser
\* std::optional<int32_t> holding a value.
Some(v) == [has |-> TRUE, value |-> v]

eof_token == bytecode_Token("EOF_TOKEN", << >>)

\* pos counts from 0, as the code counts it.
bytecode_peek(tokens, pos) == IF pos >= Len(tokens) THEN eof_token ELSE tokens[pos + 1]
is_eof(tokens, pos) == pos >= Len(tokens) \/ bytecode_peek(tokens, pos).kind = "EOF_TOKEN"
bytecode_check(tokens, pos, kind) ==
  IF is_eof(tokens, pos) THEN FALSE ELSE bytecode_peek(tokens, pos).kind = kind

\* std::stoi on the text of an INT token, an optional '-' and digits: the
\* int, or std::out_of_range when the number does not fit an int.
RECURSIVE stoi_digits(_, _, _)
stoi_digits(s, acc, negative) ==
  IF s = << >> THEN [ok |-> TRUE, value |-> acc]
  ELSE IF negative
  THEN ( IF acc < -214748364 \/ (acc = -214748364 /\ DigitVal(Head(s)) > 8)
         THEN [ok |-> FALSE]
         ELSE stoi_digits(Tail(s), acc * 10 - DigitVal(Head(s)), negative) )
  ELSE ( IF acc > 214748364 \/ (acc = 214748364 /\ DigitVal(Head(s)) > 7)
         THEN [ok |-> FALSE]
         ELSE stoi_digits(Tail(s), acc * 10 + DigitVal(Head(s)), negative) )

std_stoi(text) ==
  IF Head(text) = "-" THEN stoi_digits(Tail(text), 0, TRUE) ELSE stoi_digits(text, 0, FALSE)

\* safe_unsigned_cast of an int: the uint32_t is kept as its 32 bits, read
\* as a two's complement int.  assert(new_value == value) fails on a
\* negative value, and is compiled out when NDEBUG is defined.
safe_unsigned_cast(value, NDEBUG) ==
  IF value < 0 /\ ~NDEBUG THEN [ok |-> FALSE] ELSE [ok |-> TRUE, value |-> value]

\* What a parsing step did: "more" (go on), "done" (the list has ended),
\* "call" (parse_function is called), "exit" (std::exit(1)) or "terminate"
\* (an exception nothing catches); the new pos and the elements parsed.
Step(st, pos, add) == [st |-> st, pos |-> pos, add |-> add]

\* A Constant: its class, and its value member, which for a Boolean is kept
\* as 0 or 1 and for a String in text.
Constant(kind, value) ==
  [ kind |-> kind,
    value |-> IF kind = "String" THEN 0
              ELSE IF kind = "Boolean" THEN (IF value THEN 1 ELSE 0) ELSE value,
    text |-> IF kind = "String" THEN value ELSE << >> ]

parse_constant(tokens, pos) ==
  IF bytecode_check(tokens, pos, "NONE") THEN Step("more", pos + 1, << Constant("None", 0) >>)
  ELSE IF bytecode_check(tokens, pos, "TRUE")
  THEN Step("more", pos + 1, << Constant("Boolean", TRUE) >>)
  ELSE IF bytecode_check(tokens, pos, "FALSE")
  THEN Step("more", pos + 1, << Constant("Boolean", FALSE) >>)
  ELSE IF bytecode_check(tokens, pos, "STRING")
  THEN Step("more", pos + 1, << Constant("String", bytecode_peek(tokens, pos).text) >>)
  ELSE IF bytecode_check(tokens, pos, "INT")
  THEN ( IF std_stoi(bytecode_peek(tokens, pos).text).ok
         THEN Step("more", pos + 1,
                   << Constant("Integer", std_stoi(bytecode_peek(tokens, pos).text).value) >>)
         ELSE Step("terminate", pos + 1, << >>) )
  ELSE Step("exit", pos, << >>)

Instruction(operation, operand0) == [operation |-> operation, operand0 |-> operand0]

\* parse_instruction with the operand of goto left out.
instruction_of_bare ==
  [ k \in { "LOAD_CONST", "LOAD_FUNC", "LOAD_LOCAL", "STORE_LOCAL", "LOAD_GLOBAL",
            "STORE_GLOBAL", "PUSH_REF", "LOAD_REF", "STORE_REF", "ALLOC_RECORD",
            "FIELD_LOAD", "FIELD_STORE", "INDEX_LOAD", "INDEX_STORE", "ALLOC_CLOSURE",
            "CALL", "RETURN", "ADD", "SUB", "MUL", "DIV", "NEG", "GT", "GEQ", "EQ", "AND",
            "OR", "NOT", "GOTO", "IF", "DUP", "SWAP", "POP" } |->
      CASE k = "LOAD_CONST" -> [operation |-> "LoadConst", operand |-> TRUE]
        [] k = "LOAD_FUNC" -> [operation |-> "LoadFunc", operand |-> TRUE]
        [] k = "LOAD_LOCAL" -> [operation |-> "LoadLocal", operand |-> TRUE]
        [] k = "STORE_LOCAL" -> [operation |-> "StoreLocal", operand |-> TRUE]
        [] k = "LOAD_GLOBAL" -> [operation |-> "LoadGlobal", operand |-> TRUE]
        [] k = "STORE_GLOBAL" -> [operation |-> "StoreGlobal", operand |-> TRUE]
        [] k = "PUSH_REF" -> [operation |-> "PushReference", operand |-> TRUE]
        [] k = "LOAD_REF" -> [operation |-> "LoadReference", operand |-> FALSE]
        [] k = "STORE_REF" -> [operation |-> "StoreReference", operand |-> FALSE]
        [] k = "ALLOC_RECORD" -> [operation |-> "AllocRecord", operand |-> FALSE]
        [] k = "FIELD_LOAD" -> [operation |-> "FieldLoad", operand |-> TRUE]
        [] k = "FIELD_STORE" -> [operation |-> "FieldStore", operand |-> TRUE]
        [] k = "INDEX_LOAD" -> [operation |-> "IndexLoad", operand |-> FALSE]
        [] k = "INDEX_STORE" -> [operation |-> "IndexStore", operand |-> FALSE]
        [] k = "ALLOC_CLOSURE" -> [operation |-> "AllocClosure", operand |-> TRUE]
        [] k = "CALL" -> [operation |-> "Call", operand |-> TRUE]
        [] k = "RETURN" -> [operation |-> "Return", operand |-> FALSE]
        [] k = "ADD" -> [operation |-> "Add", operand |-> FALSE]
        [] k = "SUB" -> [operation |-> "Sub", operand |-> FALSE]
        [] k = "MUL" -> [operation |-> "Mul", operand |-> FALSE]
        [] k = "DIV" -> [operation |-> "Div", operand |-> FALSE]
        [] k = "NEG" -> [operation |-> "Neg", operand |-> FALSE]
        [] k = "GT" -> [operation |-> "Gt", operand |-> FALSE]
        [] k = "GEQ" -> [operation |-> "Geq", operand |-> FALSE]
        [] k = "EQ" -> [operation |-> "Eq", operand |-> FALSE]
        [] k = "AND" -> [operation |-> "And", operand |-> FALSE]
        [] k = "OR" -> [operation |-> "Or", operand |-> FALSE]
        [] k = "NOT" -> [operation |-> "Not", operand |-> FALSE]
        [] k = "GOTO" -> [operation |-> "Goto", operand |-> FALSE]
        [] k = "IF" -> [operation |-> "If", operand |-> TRUE]
        [] k = "DUP" -> [operation |-> "Dup", operand |-> FALSE]
        [] k = "SWAP" -> [operation |-> "Swap", operand |-> FALSE]
        [] k = "POP" -> [operation |-> "Pop", operand |-> FALSE] ]

\* The branches of parse_instruction: the Operation of each token kind, and
\* whether an INT operand is consumed after it.
instruction_of ==
  [ k \in { "LOAD_CONST", "LOAD_FUNC", "LOAD_LOCAL", "STORE_LOCAL", "LOAD_GLOBAL",
            "STORE_GLOBAL", "PUSH_REF", "LOAD_REF", "STORE_REF", "ALLOC_RECORD",
            "FIELD_LOAD", "FIELD_STORE", "INDEX_LOAD", "INDEX_STORE", "ALLOC_CLOSURE",
            "CALL", "RETURN", "ADD", "SUB", "MUL", "DIV", "NEG", "GT", "GEQ", "EQ", "AND",
            "OR", "NOT", "GOTO", "IF", "DUP", "SWAP", "POP" } |->
      CASE k = "LOAD_CONST" -> [operation |-> "LoadConst", operand |-> TRUE]
        [] k = "LOAD_FUNC" -> [operation |-> "LoadFunc", operand |-> TRUE]
        [] k = "LOAD_LOCAL" -> [operation |-> "LoadLocal", operand |-> TRUE]
        [] k = "STORE_LOCAL" -> [operation |-> "StoreLocal", operand |-> TRUE]
        [] k = "LOAD_GLOBAL" -> [operation |-> "LoadGlobal", operand |-> TRUE]
        [] k = "STORE_GLOBAL" -> [operation |-> "StoreGlobal", operand |-> TRUE]
        [] k = "PUSH_REF" -> [operation |-> "PushReference", operand |-> TRUE]
        [] k = "LOAD_REF" -> [operation |-> "LoadReference", operand |-> FALSE]
        [] k = "STORE_REF" -> [operation |-> "StoreReference", operand |-> FALSE]
        [] k = "ALLOC_RECORD" -> [operation |-> "AllocRecord", operand |-> FALSE]
        [] k = "FIELD_LOAD" -> [operation |-> "FieldLoad", operand |-> TRUE]
        [] k = "FIELD_STORE" -> [operation |-> "FieldStore", operand |-> TRUE]
        [] k = "INDEX_LOAD" -> [operation |-> "IndexLoad", operand |-> FALSE]
        [] k = "INDEX_STORE" -> [operation |-> "IndexStore", operand |-> FALSE]
        [] k = "ALLOC_CLOSURE" -> [operation |-> "AllocClosure", operand |-> TRUE]
        [] k = "CALL" -> [operation |-> "Call", operand |-> TRUE]
        [] k = "RETURN" -> [operation |-> "Return", operand |-> FALSE]
        [] k = "ADD" -> [operation |-> "Add", operand |-> FALSE]
        [] k = "SUB" -> [operation |-> "Sub", operand |-> FALSE]
        [] k = "MUL" -> [operation |-> "Mul", operand |-> FALSE]
        [] k = "DIV" -> [operation |-> "Div", operand |-> FALSE]
        [] k = "NEG" -> [operation |-> "Neg", operand |-> FALSE]
        [] k = "GT" -> [operation |-> "Gt", operand |-> FALSE]
        [] k = "GEQ" -> [operation |-> "Geq", operand |-> FALSE]
        [] k = "EQ" -> [operation |-> "Eq", operand |-> FALSE]
        [] k = "AND" -> [operation |-> "And", operand |-> FALSE]
        [] k = "OR" -> [operation |-> "Or", operand |-> FALSE]
        [] k = "NOT" -> [operation |-> "Not", operand |-> FALSE]
        [] k = "GOTO" -> [operation |-> "Goto", operand |-> TRUE]
        [] k = "IF" -> [operation |-> "If", operand |-> TRUE]
        [] k = "DUP" -> [operation |-> "Dup", operand |-> FALSE]
        [] k = "SWAP" -> [operation |-> "Swap", operand |-> FALSE]
        [] k = "POP" -> [operation |-> "Pop", operand |-> FALSE] ]

parse_instruction(tokens, pos) ==
  IF is_eof(tokens, pos) \/ bytecode_peek(tokens, pos).kind \notin DOMAIN instruction_of
  THEN Step("exit", pos, << >>)
  ELSE IF ~instruction_of[bytecode_peek(tokens, pos).kind].operand
  THEN Step("more", pos + 1,
            << Instruction(instruction_of[bytecode_peek(tokens, pos).kind].operation, nullopt) >>)
  ELSE IF ~bytecode_check(tokens, pos + 1, "INT") THEN Step("exit", pos + 1, << >>)
  ELSE IF ~std_stoi(bytecode_peek(tokens, pos + 1).text).ok THEN Step("terminate", pos + 2, << >>)
  ELSE Step("more", pos + 2,
            << Instruction(instruction_of[bytecode_peek(tokens, pos).kind].operation,
                           Some(std_stoi(bytecode_peek(tokens, pos + 1).text).value)) >>)

\* parse_function_list_star, up to the loop of parse_function_list_plus.
parse_function_list_star(tokens, pos) ==
  IF bytecode_check(tokens, pos, "RBRACKET") THEN Step("done", pos, << >>)
  ELSE IF bytecode_check(tokens, pos, "FUNCTION") THEN Step("call", pos, << >>)
  ELSE Step("more", pos, << >>)

\* One test of while (match({COMMA})) in parse_function_list_plus, and the
\* body it guards.
parse_function_list_plus(tokens, pos) ==
  IF ~bytecode_check(tokens, pos, "COMMA") THEN Step("done", pos, << >>)
  ELSE IF bytecode_check(tokens, pos + 1, "FUNCTION") THEN Step("call", pos + 1, << >>)
  ELSE Step("more", pos + 1, << >>)

parse_ident_list_star(tokens, pos) ==
  IF bytecode_check(tokens, pos, "RBRACKET") THEN Step("done", pos, << >>)
  ELSE IF bytecode_check(tokens, pos, "IDENTIFIER")
  THEN Step("more", pos + 1, << bytecode_peek(tokens, pos).text >>)
  ELSE Step("exit", pos, << >>)

parse_ident_list_plus(tokens, pos) ==
  IF ~bytecode_check(tokens, pos, "COMMA") THEN Step("done", pos, << >>)
  ELSE IF bytecode_check(tokens, pos + 1, "IDENTIFIER")
  THEN Step("more", pos + 2, << bytecode_peek(tokens, pos + 1).text >>)
  ELSE Step("more", pos + 1, << >>)

parse_constant_list_star(tokens, pos) ==
  IF bytecode_check(tokens, pos, "RBRACKET") THEN Step("done", pos, << >>)
  ELSE parse_constant(tokens, pos)

parse_constant_list_plus(tokens, pos) ==
  IF ~bytecode_check(tokens, pos, "COMMA") THEN Step("done", pos, << >>)
  ELSE IF ~bytecode_check(tokens, pos + 1, "RBRACKET") THEN parse_constant(tokens, pos + 1)
  ELSE Step("more", pos + 1, << >>)

\* One test of the while loop of parse_instruction_list, and its body.
parse_instruction_list(tokens, pos) ==
  IF ~bytecode_check(tokens, pos, "RBRACKET") /\ ~is_eof(tokens, pos)
  THEN parse_instruction(tokens, pos)
  ELSE Step("done", pos, << >>)

\* The members of Function that are lists of identifiers.
IdentLists == { "local_vars_", "local_reference_vars_", "free_vars_", "names_" }
Members == IdentLists \cup { "functions_", "constants_", "instructions" }

\* The call that opens the list of a member, and the test of its loop.
list_star(member, tokens, pos) ==
  CASE member = "functions_" -> parse_function_list_star(tokens, pos)
    [] member = "constants_" -> parse_constant_list_star(tokens, pos)
    [] member = "instructions" -> parse_instruction_list(tokens, pos)
    [] OTHER -> parse_ident_list_star(tokens, pos)

list_plus(member, tokens, pos) ==
  CASE member = "functions_" -> parse_function_list_plus(tokens, pos)
    [] member = "constants_" -> parse_constant_list_plus(tokens, pos)
    [] member = "instructions" -> parse_instruction_list(tokens, pos)
    [] OTHER -> parse_ident_list_plus(tokens, pos)

\* new bytecode::Function(), every member empty.
Function0 ==
  [ functions_ |-> << >>, constants_ |-> << >>, parameter_count_ |-> 0,
    local_vars_ |-> << >>, local_reference_vars_ |-> << >>, free_vars_ |-> << >>,
    names_ |-> << >>, instructions |-> << >> ]

\* A call of parse_function: the step it is at, whether it is inside the
\* loop of a list, and the members parsed so far.
Activation0 == [at |-> 1, inList |-> FALSE, fn |-> Function0]

NoFunction == [null |-> TRUE]

\* ---- bytecode::PrettyPrinter
\* print_indent: indent_ tabs.
RECURSIVE print_indent(_)
print_indent(indent_) == IF indent_ = 0 THEN << >> ELSE << "\t" >> \o print_indent(indent_ - 1)

\* operator<< on a uint32_t kept as its 32 bits: a negative pattern stands
\* for the pattern plus 2^32, written out in decimal.
to_string_uint32(bits) ==
  IF bits >= 0 THEN to_string(bits)
  ELSE LET h == (bits + INT_MAX) + 1
       IN to_string((h \div 10) + 214748364 + (((h % 10) + 8) \div 10))
          \o << Digits[(((h % 10) + 8) % 10) + 1] >>

RECURSIVE unescape(_)
unescape(str) ==
  IF str = << >> THEN << >>
  ELSE ( CASE Head(str) = "\n" -> << "\\", "n" >>
           [] Head(str) = "\t" -> << "\\", "t" >>
           [] Head(str) = "\"" -> << "\\", "\"" >>
           [] Head(str) = "\\" -> << "\\", "\\" >>
           [] OTHER -> << Head(str) >> ) \o unescape(Tail(str))

print_Constant(constant) ==
  CASE constant.kind = "None" -> Spelling("None")
    [] constant.kind = "Boolean" ->
         (IF constant.value = 1 THEN Spelling("true") ELSE Spelling("false"))
    [] constant.kind = "Integer" -> to_string(constant.value)
    [] constant.kind = "String" -> << "\"" >> \o unescape(constant.text) \o << "\"" >>

\* The loop of print(Function) over constants_, from index i on.
RECURSIVE print_constants(_, _)
print_constants(constants_, i) ==
  IF i > Len(constants_) THEN << >>
  ELSE (IF i # 1 THEN << ",", " " >> ELSE << >>) \o print_Constant(constants_[i])
       \o print_constants(constants_, i + 1)

\* The loop of print(name, names) over names, from index i on.
RECURSIVE print_each_name(_, _)
print_each_name(names, i) ==
  IF i > Len(names) THEN << >>
  ELSE (IF i # 1 THEN << ",", " " >> ELSE << >>) \o names[i] \o print_each_name(names, i + 1)

print_names(name, names, indent_) ==
  print_indent(indent_) \o name \o << " ", "=", " ", "[" >> \o print_each_name(names, 1) \o << "]", ",", "\n" >>

\* The cases of print(Instruction): what is written for each Operation, and
\* whether inst.operand0.value() is read.
mnemonic_of ==
  [ op \in { "LoadConst", "LoadFunc", "LoadLocal", "StoreLocal", "LoadGlobal", "StoreGlobal", "PushReference", "LoadReference", "StoreReference", "AllocRecord", "FieldLoad", "FieldStore", "IndexLoad", "IndexStore", "AllocClosure", "Call", "Return", "Add", "Sub", "Mul", "Div", "Neg", "Gt", "Geq", "Eq", "And", "Or", "Not", "Goto", "If", "Dup", "Swap", "Pop" } |->
      CASE op = "LoadConst" -> [text |-> "load_const", operand |-> TRUE]
        [] op = "LoadFunc" -> [text |-> "load_func", operand |-> TRUE]
        [] op = "LoadLocal" -> [text |-> "load_local", operand |-> TRUE]
        [] op = "StoreLocal" -> [text |-> "store_local", operand |-> TRUE]
        [] op = "LoadGlobal" -> [text |-> "load_global", operand |-> TRUE]
        [] op = "StoreGlobal" -> [text |-> "store_global", operand |-> TRUE]
        [] op = "PushReference" -> [text |-> "push_ref", operand |-> TRUE]
        [] op = "LoadReference" -> [text |-> "load_ref", operand |-> FALSE]
        [] op = "StoreReference" -> [text |-> "store_ref", operand |-> FALSE]
        [] op = "AllocRecord" -> [text |-> "alloc_record", operand |-> FALSE]
        [] op = "FieldLoad" -> [text |-> "field_load", operand |-> TRUE]
        [] op = "FieldStore" -> [text |-> "field_store", operand |-> TRUE]
        [] op = "IndexLoad" -> [text |-> "index_load", operand |-> FALSE]
        [] op = "IndexStore" -> [text |-> "index_store", operand |-> FALSE]
        [] op = "AllocClosure" -> [text |-> "alloc_closure", operand |-> TRUE]
        [] op = "Call" -> [text |-> "call", operand |-> TRUE]
        [] op = "Return" -> [text |-> "return", operand |-> FALSE]
        [] op = "Add" -> [text |-> "add", operand |-> FALSE]
        [] op = "Sub" -> [text |-> "sub", operand |-> FALSE]
        [] op = "Mul" -> [text |-> "mul", operand |-> FALSE]
        [] op = "Div" -> [text |-> "div", operand |-> FALSE]
        [] op = "Neg" -> [text |-> "neg", operand |-> FALSE]
        [] op = "Gt" -> [text |-> "gt", operand |-> FALSE]
        [] op = "Geq" -> [text |-> "geq", operand |-> FALSE]
        [] op = "Eq" -> [text |-> "eq", operand |-> FALSE]
        [] op = "And" -> [text |-> "and", operand |-> FALSE]
        [] op = "Or" -> [text |-> "or", operand |-> FALSE]
        [] op = "Not" -> [text |-> "not", operand |-> FALSE]
        [] op = "Goto" -> [text |-> "goto", operand |-> TRUE]
        [] op = "If" -> [text |-> "if", operand |-> TRUE]
        [] op = "Dup" -> [text |-> "dup", operand |-> FALSE]
        [] op = "Swap" -> [text |-> "swap", operand |-> FALSE]
        [] op = "Pop" -> [text |-> "pop", operand |-> FALSE] ]

\* std::optional::value() on an empty optional throws bad_optional_access.
throws_Instruction(inst) == mnemonic_of[inst.operation].operand /\ ~inst.operand0.has

print_Instruction(inst) ==
  Spelling(mnemonic_of[inst.operation].text)
  \o (IF mnemonic_of[inst.operation].operand
      THEN << "\t" >> \o to_string(inst.operand0.value) ELSE << >>)

RECURSIVE print_InstructionList(_, _, _)
print_InstructionList(ilist, i, indent_) ==
  IF i > Len(ilist) THEN << >>
  ELSE print_indent(indent_) \o print_Instruction(ilist[i]) \o << "\n" >>
       \o print_InstructionList(ilist, i + 1, indent_)

RECURSIVE print_Function(_, _)
\* The loop of print(Function) over functions_, from index i on.
RECURSIVE print_functions(_, _, _)
print_functions(functions_, i, indent_) ==
  IF i > Len(functions_) THEN << >>
  ELSE print_Function(functions_[i], indent_)
       \o (IF i # Len(functions_) THEN << ",", "\n" >> ELSE << >>)
       \o print_functions(functions_, i + 1, indent_)

print_Function(function, indent_) ==
  print_indent(indent_) \o << "f", "u", "n", "c", "t", "i", "o", "n", "\n" >>
  \o print_indent(indent_) \o << "{", "\n" >>
  \o print_indent(indent_ + 1) \o << "f", "u", "n", "c", "t", "i", "o", "n", "s", " ", "=" >>
  \o ( IF function.functions_ = << >> THEN << " ", "[", "]", ",", "\n" >>
       ELSE << "\n" >> \o print_indent(indent_ + 1) \o << "[", "\n" >>
            \o print_functions(function.functions_, 1, indent_ + 2)
            \o << "\n" >> \o print_indent(indent_ + 1) \o << "]", ",", "\n" >> )
  \o print_indent(indent_ + 1) \o << "c", "o", "n", "s", "t", "a", "n", "t", "s", " ", "=", " ", "[" >>
  \o print_constants(function.constants_, 1) \o << "]", ",", "\n" >>
  \o print_indent(indent_ + 1) \o << "p", "a", "r", "a", "m", "e", "t", "e", "r", "_", "c", "o", "u", "n", "t", " ", "=", " " >>
  \o to_string_uint32(function.parameter_count_) \o << ",", "\n" >>
  \o print_names(Spelling("local_vars"), function.local_vars_, indent_ + 1)
  \o print_names(Spelling("local_ref_vars"), function.local_reference_vars_, indent_ + 1)
  \o print_names(Spelling("free_vars"), function.free_vars_, indent_ + 1)
  \o print_names(Spelling("names"), function.names_, indent_ + 1)
  \o print_indent(indent_ + 1) \o << "i", "n", "s", "t", "r", "u", "c", "t", "i", "o", "n", "s", " ", "=", " ", "\n" >>
  \o print_indent(indent_ + 1) \o << "[", "\n" >>
  \o print_InstructionList(function.instructions, 1, indent_ + 2)
  \o print_indent(indent_ + 1) \o << "]", "\n" >>
  \o print_indent(indent_) \o << "}" >>

\* Whether print(Function) reads an empty operand0 somewhere in the tree.
RECURSIVE throws_Function(_)
throws_Function(function) ==
  \/ \E i \in 1..Len(function.instructions) : throws_Instruction(function.instructions[i])
  \/ \E i \in 1..Len(function.functions_) : throws_Function(function.functions_[i])

\* ---- the vm command, step by step
\* main() given the vm command on contents: the Lexer on it, no token yet.
\* given is what the run started from, and first what the run before this
\* one wrote, when this run reads the output of another.
Vm(contents, NDEBUG, given, run, first) ==
  [ stage |-> "lex", NDEBUG |-> NDEBUG, given |-> given, run |-> run, first |-> first,
    contents |-> contents, rest |-> contents, tokens |-> << >>, pos |-> 0,
    calls |-> << >>, function |-> NoFunction, os |-> << >> ]

others == << prog, pc, lexer, ast, interp, out >>

\* std::exit(1) after a diagnostic on std::cerr (its position left out), or
\* std::terminate / abort, which end the process with SIGABRT.
VmExit(code, line) ==
  /\ vm' = [vm EXCEPT !.stage = "done"]
  /\ exitCode' = code
  /\ err' = Append(err, line)
  /\ UNCHANGED others

VmGo(next) == vm' = next /\ UNCHANGED << others, err, exitCode >>

\* One iteration of the while loop of Lexer::lex.
VmLex ==
  /\ pc = "vm" /\ vm.stage = "lex" /\ vm.rest # << >>
  /\ IF lex_iteration(vm.rest).exit
     THEN VmExit(1, "Error: Unexpected character")
     ELSE VmGo([vm EXCEPT !.rest = lex_iteration(vm.rest).rest,
                          !.tokens = @ \o lex_iteration(vm.rest).toks])

\* The loop has ended: EOF_TOKEN is appended and Parser is constructed.
VmLexReturn ==
  /\ pc = "vm" /\ vm.stage = "lex" /\ vm.rest = << >>
  /\ VmGo([vm EXCEPT !.stage = "parse", !.tokens = Append(@, eof_token)])

\* Parser::parse up to its call of parse_function.
VmParse ==
  /\ pc = "vm" /\ vm.stage = "parse" /\ vm.calls = << >> /\ vm.function = NoFunction
  /\ IF is_eof(vm.tokens, vm.pos)
     THEN VmExit(1, "Error: Empty input")
     ELSE VmGo([vm EXCEPT !.calls = << Activation0 >>])

\* The running call of parse_function and the step it is at.
Top == vm.calls[Len(vm.calls)]
AtStep == parse_function_steps[Top.at]
Returning == Top.at > Len(parse_function_steps)
Kinds == { parse_function_steps[i] : i \in 1..Len(parse_function_steps) }
           \ (Members \cup { "parameter_count_" })

\* The step after the run of consume() calls that starts at step at.
RunOfConsumes(at) ==
  CHOOSE j \in at..(Len(parse_function_steps) + 1) :
    /\ \A i \in at..(j - 1) : parse_function_steps[i] \in Kinds
    /\ j = Len(parse_function_steps) + 1 \/ parse_function_steps[j] \notin Kinds

\* The consume() calls of that run that do not find their token.
Refused(at) ==
  { i \in at..(RunOfConsumes(at) - 1) :
      ~bytecode_check(vm.tokens, vm.pos + (i - at), parse_function_steps[i]) }

\* A run of consume() calls of parse_function: each advances, or the first
\* one that does not find its kind reports and exits.
VmConsume ==
  /\ pc = "vm" /\ vm.stage = "parse" /\ vm.calls # << >>
  /\ ~Returning /\ AtStep \in Kinds
  /\ IF Refused(Top.at) # {}
     THEN VmExit(1, "Error: " \o parse_function_messages[
                      CHOOSE i \in Refused(Top.at) : \A j \in Refused(Top.at) : i <= j])
     ELSE VmGo([vm EXCEPT !.pos = @ + (RunOfConsumes(Top.at) - Top.at),
                          !.calls[Len(vm.calls)].at = RunOfConsumes(Top.at)])

\* consume(INT), std::stoi and safe_unsigned_cast for parameter_count.
VmParameterCount ==
  /\ pc = "vm" /\ vm.stage = "parse" /\ vm.calls # << >>
  /\ ~Returning /\ AtStep = "parameter_count_"
  /\ IF ~bytecode_check(vm.tokens, vm.pos, "INT")
     THEN VmExit(1, "Error: " \o parse_function_messages[Top.at])
     ELSE IF ~std_stoi(bytecode_peek(vm.tokens, vm.pos).text).ok
     THEN VmExit(134, "terminate called after throwing an instance of 'std::out_of_range'")
     ELSE IF ~safe_unsigned_cast(std_stoi(bytecode_peek(vm.tokens, vm.pos).text).value,
                                 vm.NDEBUG).ok
     THEN VmExit(134, "Assertion `new_value == value' failed.")
     ELSE VmGo([vm EXCEPT
            !.pos = @ + 1,
            !.calls[Len(vm.calls)].at = @ + 1,
            !.calls[Len(vm.calls)].fn.parameter_count_ =
               safe_unsigned_cast(std_stoi(bytecode_peek(vm.tokens, vm.pos).text).value,
                                  vm.NDEBUG).value])

\* What follows a step r of the list of the member the call is at.
VmListStep(r) ==
  CASE r.st = "exit" -> VmExit(1, "Error: Expected")
    [] r.st = "terminate" ->
         VmExit(134, "terminate called after throwing an instance of 'std::out_of_range'")
    [] r.st = "done" ->
         VmGo([vm EXCEPT !.pos = r.pos,
                         !.calls[Len(vm.calls)].at = @ + 1,
                         !.calls[Len(vm.calls)].inList = FALSE])
    [] r.st = "more" ->
         VmGo([vm EXCEPT !.pos = r.pos,
                         !.calls[Len(vm.calls)].inList = TRUE,
                         !.calls[Len(vm.calls)].fn[AtStep] = @ \o r.add])
    [] r.st = "call" ->
         VmGo([vm EXCEPT !.pos = r.pos,
                         !.calls = Append([@ EXCEPT ![Len(vm.calls)].inList = TRUE],
                                          Activation0)])

\* A list of parse_function is entered: its _star function, up to the loop.
VmListStar ==
  /\ pc = "vm" /\ vm.stage = "parse" /\ vm.calls # << >>
  /\ ~Returning /\ AtStep \in Members /\ ~Top.inList
  /\ VmListStep(list_star(AtStep, vm.tokens, vm.pos))

\* One test of the loop of the list, and the body it guards.
VmListPlus ==
  /\ pc = "vm" /\ vm.stage = "parse" /\ vm.calls # << >>
  /\ ~Returning /\ AtStep \in Members /\ Top.inList
  /\ VmListStep(list_plus(AtStep, vm.tokens, vm.pos))

\* parse_function returns the Function: to the list of the call that made
\* it, or to Parser::parse.
VmReturn ==
  /\ pc = "vm" /\ vm.stage = "parse" /\ vm.calls # << >>
  /\ Returning
  /\ IF Len(vm.calls) = 1
     THEN VmGo([vm EXCEPT !.calls = << >>, !.function = Top.fn])
     ELSE VmGo([vm EXCEPT
            !.calls = [ SubSeq(@, 1, Len(@) - 1) EXCEPT
                          ![Len(vm.calls) - 1].fn.functions_ = Append(@, Top.fn) ]])

\* Parser::parse after parse_function: the input must have ended.
VmParseReturn ==
  /\ pc = "vm" /\ vm.stage = "parse" /\ vm.calls = << >> /\ vm.function # NoFunction
  /\ IF ~is_eof(vm.tokens, vm.pos)
     THEN VmExit(1, "Error: Unexpected tokens after function definition")
     ELSE VmGo([vm EXCEPT !.stage = "print"])

\* bytecode::prettyprint on the output stream, then main returns 0.  What
\* was written before an exception ended the process is left out.
VmPrint ==
  /\ pc = "vm" /\ vm.stage = "print"
  /\ IF throws_Function(vm.function)
     THEN VmExit(134, "terminate called after throwing an instance of 'std::bad_optional_access'")
     ELSE /\ vm' = [vm EXCEPT !.stage = "done", !.os = print_Function(vm.function, 0)]
          /\ exitCode' = 0
          /\ UNCHANGED << others, err >>

\* The output of a run that returned 0 is given to a second run of vm.
VmFeed ==
  /\ pc = "vm" /\ vm.stage = "done" /\ exitCode = 0 /\ vm.run = 1
  /\ vm' = Vm(vm.os, vm.NDEBUG, vm.given, 2, vm.os)
  /\ exitCode' = -1
  /\ UNCHANGED << others, err >>

VmNext ==
  \/ VmLex \/ VmLexReturn \/ VmParse \/ VmConsume \/ VmParameterCount
  \/ VmListStar \/ VmListPlus \/ VmReturn \/ VmParseReturn \/ VmPrint \/ VmFeed

\* ---------------------------------------------------------------- VmSpec
\* The vm command on bounded bytecode texts: one function whose members are
\* drawn from the samples below, one member at a time, and whose
\* instruction list is any sequence of at most MaxInstr words.
MaxInstr == 2

FunctionSlots ==
  { <<  >>,
    << "f", "u", "n", "c", "t", "i", "o", "n", "{", "f", "u", "n", "c", "t", "i", "o", "n", "s", "=", "[", "]", ",", "c", "o", "n", "s", "t", "a", "n", "t", "s", "=", "[", "]", ",", "p", "a", "r", "a", "m", "e", "t", "e", "r", "_", "c", "o", "u", "n", "t", "=", "0", ",", "l", "o", "c", "a", "l", "_", "v", "a", "r", "s", "=", "[", "]", ",", "l", "o", "c", "a", "l", "_", "r", "e", "f", "_", "v", "a", "r", "s", "=", "[", "]", ",", "f", "r", "e", "e", "_", "v", "a", "r", "s", "=", "[", "]", ",", "n", "a", "m", "e", "s", "=", "[", "]", ",", "i", "n", "s", "t", "r", "u", "c", "t", "i", "o", "n", "s", "=", "[", "]", "}" >>,
    << "f", "u", "n", "c", "t", "i", "o", "n", "{", "f", "u", "n", "c", "t", "i", "o", "n", "s", "=", "[", "]", ",", "c", "o", "n", "s", "t", "a", "n", "t", "s", "=", "[", "]", ",", "p", "a", "r", "a", "m", "e", "t", "e", "r", "_", "c", "o", "u", "n", "t", "=", "0", ",", "l", "o", "c", "a", "l", "_", "v", "a", "r", "s", "=", "[", "]", ",", "l", "o", "c", "a", "l", "_", "r", "e", "f", "_", "v", "a", "r", "s", "=", "[", "]", ",", "f", "r", "e", "e", "_", "v", "a", "r", "s", "=", "[", "]", ",", "n", "a", "m", "e", "s", "=", "[", "]", ",", "i", "n", "s", "t", "r", "u", "c", "t", "i", "o", "n", "s", "=", "[", "]", "}", ",", "f", "u", "n", "c", "t", "i", "o", "n", "{", "f", "u", "n", "c", "t", "i", "o", "n", "s", "=", "[", "]", ",", "c", "o", "n", "s", "t", "a", "n", "t", "s", "=", "[", "]", ",", "p", "a", "r", "a", "m", "e", "t", "e", "r", "_", "c", "o", "u", "n", "t", "=", "0", ",", "l", "o", "c", "a", "l", "_", "v", "a", "r", "s", "=", "[", "]", ",", "l", "o", "c", "a", "l", "_", "r", "e", "f", "_", "v", "a", "r", "s", "=", "[", "]", ",", "f", "r", "e", "e", "_", "v", "a", "r", "s", "=", "[", "]", ",", "n", "a", "m", "e", "s", "=", "[", "]", ",", "i", "n", "s", "t", "r", "u", "c", "t", "i", "o", "n", "s", "=", "[", "]", "}" >>,
    << "," >>,
    << "x" >> }

ConstantSlots ==
  { <<  >>,
    << "N", "o", "n", "e", ",", " ", "t", "r", "u", "e", ",", " ", "f", "a", "l", "s", "e" >>,
    << "1", ",", " ", "-", "5", "," >>,
    << "\"", "a", "\\", "n", "\\", "t", "\\", "\\", "\\", "\"", "\"" >>,
    << "\"", "a", "\n", "b", "\"", " ", "/", "/", " ", "c", "\n" >>,
    << "2", "1", "4", "7", "4", "8", "3", "6", "4", "8" >>,
    << "-", "2", "1", "4", "7", "4", "8", "3", "6", "4", "8" >>,
    << "," >>,
    << "\"", "a" >>,
    << "\"", "\\", "q", "\"" >>,
    << "-", " ", "1" >> }

ParameterCountSlots ==
  { << "0" >>,
    << "1" >>,
    << "-", "1" >>,
    << "-", "0" >>,
    << "0", "0", "7" >>,
    << "2", "1", "4", "7", "4", "8", "3", "6", "4", "7" >>,
    << "2", "1", "4", "7", "4", "8", "3", "6", "4", "8" >>,
    << "4", "2", "9", "4", "9", "6", "7", "2", "9", "5" >>,
    << "-", "2", "1", "4", "7", "4", "8", "3", "6", "4", "8" >>,
    << "-", "2", "1", "4", "7", "4", "8", "3", "6", "4", "9" >>,
    << "x" >>,
    <<  >> }

IdentSlots ==
  { <<  >>,
    << "x" >>,
    << "x", ",", " ", "_", "y", "1" >>,
    << "x", ",", ",", " ", "y", "," >>,
    << "a", "d", "d" >>,
    << "1" >>,
    << "x", " ", "y" >> }

\* The words of an instruction list: the mnemonics and two integers.
InstrWords == { mnemonic_of[op].text : op \in DOMAIN mnemonic_of } \cup { "0", "-1" }

WordText(w) == IF w \in DOMAIN keyword_to_token THEN Spelling(w)
               ELSE IF w = "0" THEN << "0" >> ELSE << "-", "1" >>

RECURSIVE InstrText(_)
InstrText(ws) ==
  IF ws = << >> THEN << >> ELSE WordText(Head(ws)) \o << " " >> \o InstrText(Tail(ws))

InstructionSlots == { InstrText(ws) : ws \in UNION { [1..n -> InstrWords] : n \in 0..MaxInstr } }

\* The text of a function with the given members.
BytecodeText(fs, cs, p, lv, is) ==
  << "f", "u", "n", "c", "t", "i", "o", "n", "{", "f", "u", "n", "c", "t", "i", "o", "n", "s", "=", "[" >> \o fs \o << "]", ",", "c", "o", "n", "s", "t", "a", "n", "t", "s", "=", "[" >> \o cs
  \o << "]", ",", "p", "a", "r", "a", "m", "e", "t", "e", "r", "_", "c", "o", "u", "n", "t", "=" >> \o p \o << ",", "l", "o", "c", "a", "l", "_", "v", "a", "r", "s", "=", "[" >> \o lv
  \o << "]", ",", "l", "o", "c", "a", "l", "_", "r", "e", "f", "_", "v", "a", "r", "s", "=", "[", "]", ",", "f", "r", "e", "e", "_", "v", "a", "r", "s", "=", "[", "]", ",", "n", "a", "m", "e", "s", "=", "[", "]", ",", "i", "n", "s", "t", "r", "u", "c", "t", "i", "o", "n", "s", "=", "[" >> \o is
  \o << "]", "}" >>

VmSamples ==
  { <<  >>,
    << "/", "/", " ", "n", "o", "t", "h", "i", "n", "g", "\n" >>,
    << "@" >>,
    << "f", "u", "n", "c", "t", "i", "o", "n", "{", "f", "u", "n", "c", "t", "i", "o", "n", "s", "=", "[", "]", ",", "c", "o", "n", "s", "t", "a", "n", "t", "s", "=", "[", "]", ",", "p", "a", "r", "a", "m", "e", "t", "e", "r", "_", "c", "o", "u", "n", "t", "=", "0", ",", "l", "o", "c", "a", "l", "_", "v", "a", "r", "s", "=", "[", "]", ",", "l", "o", "c", "a", "l", "_", "r", "e", "f", "_", "v", "a", "r", "s", "=", "[", "]", ",", "f", "r", "e", "e", "_", "v", "a", "r", "s", "=", "[", "]", ",", "n", "a", "m", "e", "s", "=", "[", "]", ",", "i", "n", "s", "t", "r", "u", "c", "t", "i", "o", "n", "s", "=", "[", "]", "}", " ", "x" >>,
    << "f", "u", "n", "c", "t", "i", "o", "n", "{", "f", "u", "n", "c", "t", "i", "o", "n", "s", "=", "[", "]", ",", "c", "o", "n", "s", "t", "a", "n", "t", "s", "=", "[", "]", ",", "p", "a", "r", "a", "m", "e", "t", "e", "r", "_", "c", "o", "u", "n", "t", "=", "0", ",", "l", "o", "c", "a", "l", "_", "v", "a", "r", "s", "=", "[", "]", ",", "l", "o", "c", "a", "l", "_", "r", "e", "f", "_", "v", "a", "r", "s", "=", "[", "]", ",", "f", "r", "e", "e", "_", "v", "a", "r", "s", "=", "[", "]", ",", "n", "a", "m", "e", "s", "=", "[", "]", ",", "i", "n", "s", "t", "r", "u", "c", "t", "i", "o", "n", "s", "=", "[", "]" >>,
    << "f", "u", "n", "c", "t", "i", "o", "n", "{", "f", "u", "n", "c", "t", "i", "o", "n", "s", "=", "[", "]", ",", "c", "o", "n", "s", "t", "a", "n", "t", "s", "=", "[", "]", ",", "p", "a", "r", "a", "m", "e", "t", "e", "r", "_", "c", "o", "u", "n", "t", "=", "0", ",", "l", "o", "c", "a", "l", "_", "v", "a", "r", "s", "=", "[", "]", ",", "l", "o", "c", "a", "l", "_", "r", "e", "f", "_", "v", "a", "r", "s", "=", "[", "]", ",", "f", "r", "e", "e", "_", "v", "a", "r", "s", "=", "[", "]", ",", "n", "a", "m", "e", "s", "=", "[", "a", "d", "d", "]", ",", "i", "n", "s", "t", "r", "u", "c", "t", "i", "o", "n", "s", "=", "[", "]", "}" >>,
    << "f", "u", "n", "c", "t", "i", "o", "n", " ", "{", " ", "f", "u", "n", "c", "t", "i", "o", "n", "s", " ", "=", " ", "[", "f", "u", "n", "c", "t", "i", "o", "n", "{", "f", "u", "n", "c", "t", "i", "o", "n", "s", "=", "[", "]", ",", "c", "o", "n", "s", "t", "a", "n", "t", "s", "=", "[", "]", ",", "p", "a", "r", "a", "m", "e", "t", "e", "r", "_", "c", "o", "u", "n", "t", "=", "0", ",", "l", "o", "c", "a", "l", "_", "v", "a", "r", "s", "=", "[", "]", ",", "l", "o", "c", "a", "l", "_", "r", "e", "f", "_", "v", "a", "r", "s", "=", "[", "]", ",", "f", "r", "e", "e", "_", "v", "a", "r", "s", "=", "[", "]", ",", "n", "a", "m", "e", "s", "=", "[", "]", ",", "i", "n", "s", "t", "r", "u", "c", "t", "i", "o", "n", "s", "=", "[", "]", "}", "]", ",", " ", "c", "o", "n", "s", "t", "a", "n", "t", "s", " ", "=", " ", "[", "N", "o", "n", "e", ",", " ", "1", "]", ",", " ", "p", "a", "r", "a", "m", "e", "t", "e", "r", "_", "c", "o", "u", "n", "t", " ", "=", " ", "1", ",", " ", "l", "o", "c", "a", "l", "_", "v", "a", "r", "s", " ", "=", " ", "[", "x", "]", ",", " ", "l", "o", "c", "a", "l", "_", "r", "e", "f", "_", "v", "a", "r", "s", " ", "=", " ", "[", "]", ",", " ", "f", "r", "e", "e", "_", "v", "a", "r", "s", " ", "=", " ", "[", "y", "]", ",", " ", "n", "a", "m", "e", "s", " ", "=", " ", "[", "p", "r", "i", "n", "t", "]", ",", " ", "i", "n", "s", "t", "r", "u", "c", "t", "i", "o", "n", "s", " ", "=", " ", "[", " ", "l", "o", "a", "d", "_", "c", "o", "n", "s", "t", " ", "0", " ", "l", "o", "a", "d", "_", "g", "l", "o", "b", "a", "l", " ", "0", " ", "c", "a", "l", "l", " ", "1", " ", "p", "o", "p", " ", "r", "e", "t", "u", "r", "n", " ", "]", " ", "}" >> }

VmTexts ==
  { BytecodeText(fs, << >>, << "0" >>, << >>, << >>) : fs \in FunctionSlots }
  \cup { BytecodeText(<< >>, cs, << "0" >>, << >>, << >>) : cs \in ConstantSlots }
  \cup { BytecodeText(<< >>, << >>, p, << >>, << >>) : p \in ParameterCountSlots }
  \cup { BytecodeText(<< >>, << >>, << "0" >>, lv, << >>) : lv \in IdentSlots }
  \cup { BytecodeText(<< >>, << >>, << "0" >>, << >>, is) : is \in InstructionSlots }
  \cup VmSamples

VmInit ==
  /\ prog = "bytecode"
  /\ pc = "vm"
  /\ lexer = Lexer(<< >>)
  /\ ast = NoAst
  /\ kont = << >>
  /\ vm \in { Vm(t, n, t, 1, << >>) : t \in VmTexts, n \in BOOLEAN }
  /\ Constructed

VmSpec == VmInit /\ [][VmNext]_vars

\* -------------------------------------------------------------- PrintSpec
\* prettyprint on bounded Function trees, its output then given to vm: one
\* member of the tree is drawn from the samples below at a time, and the
\* instruction list is any sequence of at most MaxInstr instructions.
StringPool ==
  { <<  >>,
    << "a" >>,
    << "\"" >>,
    << "\\" >>,
    << "\n" >>,
    << "\t" >>,
    << "\\", "n" >>,
    << "a", "/", "/", "b" >>,
    << " ", "x", " " >>,
    << "\\", "\"" >>,
    << "i", "t", "'", "s", " ", "\"", "q", "\"", "\n" >> }

ConstantPool ==
  { Constant("None", 0), Constant("Boolean", TRUE), Constant("Boolean", FALSE) }
  \cup { Constant("Integer", n) : n \in { 0, 7, -5, INT_MAX, INT_MIN } }
  \cup { Constant("String", s) : s \in StringPool }

ConstantLists ==
  { << >> } \cup { << c >> : c \in ConstantPool }
  \cup { << Constant("None", 0), Constant("Integer", -5), Constant("String", << "a", "\"" >>),
            Constant("Boolean", TRUE) >> }

\* uint32_t values as their 32 bits: INT_MIN stands for 2^31, -1 for 2^32 - 1.
ParameterCounts == { 0, 1, 2, INT_MAX, INT_MIN, -1 }

IdentLists0 ==
  { <<  >>,
    << << "x" >> >>,
    << << "x" >>, << "_", "y", "1" >> >>,
    << << "a", "d", "d" >> >>,
    << << "x" >>, << "p", "o", "p" >> >>,
    << << "n", "a", "m", "e", "s" >> >> }

\* An instruction whose operand is present as print(Instruction) reads it.
OnTable(op, v) == Instruction(op, IF mnemonic_of[op].operand THEN Some(v) ELSE nullopt)
OffTable(op, v) == Instruction(op, IF mnemonic_of[op].operand THEN nullopt ELSE Some(v))

InstructionLists ==
  UNION { [1..n -> { OnTable(op, 0) : op \in DOMAIN mnemonic_of }] : n \in 0..MaxInstr }
  \cup { << OnTable(op, v) >> : op \in DOMAIN mnemonic_of, v \in { -1, INT_MAX, INT_MIN } }
  \cup { << OffTable(op, 3) >> : op \in DOMAIN mnemonic_of }

Inner == [Function0 EXCEPT !.constants_ = << Constant("String", << "\n" >>) >>,
                           !.parameter_count_ = 1,
                           !.local_vars_ = << << "x" >> >>,
                           !.instructions = << OnTable("LoadLocal", 0), OnTable("Return", 0) >>]

FunctionLists ==
  { << >>, << Function0 >>, << Inner >>, << Inner, Function0 >>,
    << [Function0 EXCEPT !.functions_ = << Inner >>] >> }

Trees ==
  { [Function0 EXCEPT !.functions_ = fs] : fs \in FunctionLists }
  \cup { [Function0 EXCEPT !.constants_ = cs] : cs \in ConstantLists }
  \cup { [Function0 EXCEPT !.parameter_count_ = p] : p \in ParameterCounts }
  \cup { [Function0 EXCEPT !.local_vars_ = lv] : lv \in IdentLists0 }
  \cup { [Function0 EXCEPT !.local_reference_vars_ = << << "r" >> >>, !.free_vars_ = << << "f" >> >>,
                           !.names_ = lv] : lv \in IdentLists0 }
  \cup { [Function0 EXCEPT !.instructions = is] : is \in InstructionLists }
  \cup { [Inner EXCEPT !.functions_ = << Inner >>, !.names_ = << << "p", "r", "i", "n", "t" >> >>] }

PrintInit ==
  /\ prog = "tree"
  /\ pc = "vm"
  /\ lexer = Lexer(<< >>)
  /\ ast = NoAst
  /\ kont = << >>
  /\ vm \in { [Vm(<< >>, n, T, 1, << >>) EXCEPT !.stage = "print", !.function = T] :
                T \in Trees, n \in BOOLEAN }
  /\ Constructed

PrintSpec == PrintInit /\ [][VmNext]_vars

\* ------------------------------------------- parse() on integer literals
\* The statement `x = <before> <literal> <after>;` for every run of up to
\* MaxDigits of these digits that lex() makes an IntLiteral of, and for the
\* longer literals below, around 2^31, 2^32 and 2^63.
MaxDigits == 3
LitDigits == { "0", "1", "2", "9" }

Near == << "2", "1", "4", "7", "4", "8", "3", "6", "4" >>

LiteralTexts ==
  UNION { [1..n -> LitDigits] : n \in 1..MaxDigits }
  \cup { Near \o << Digits[d] >> : d \in 1..10 }
  \cup { Near \o << "7", Digits[d] >> : d \in 1..10 }
  \cup { << "4", "2", "9", "4", "9", "6", "7", "2", "9", "5" >>,
         << "4", "2", "9", "4", "9", "6", "7", "2", "9", "6" >>,
         << "4", "2", "9", "4", "9", "6", "7", "2", "9", "7" >>,
         << "9", "9", "9", "9", "9", "9", "9", "9", "9", "9" >>,
         << "1", "0", "0", "0", "0", "0", "0", "0", "0", "0" >>,
         << "9", "2", "2", "3", "3", "7", "2", "0", "3", "6",
            "8", "5", "4", "7", "7", "5", "8", "0", "8" >>,
         << "1", "8", "4", "4", "6", "7", "4", "4", "0", "7",
            "3", "7", "0", "9", "5", "5", "1", "6", "1", "7" >> }

\* The token readNumber makes of the digits when `;` follows them.
LiteralToken(d) == readNumber(d \o << ";" >>, 0, 1).tok

Literals == { d \in LiteralTexts : LiteralToken(d).type = "IntLiteral" }

\* What stands before and after the literal in the expression.
LitFrames ==
  { << << >>, << >> >>,
    << << "-" >>, << >> >>,
    << << "a", "+" >>, << >> >>,
    << << "(" >>, << ")" >> >>,
    << << "a", "*" >>, << "-", "b" >> >> }

LitText(f, d) ==
  << "x", " ", "=" >> \o Spaced(f[1]) \o << " " >> \o d \o Spaced(f[2]) \o << ";" >>

\* The Lexer after lex() has returned on the one-line text.
LexedLiteral(f, d) ==
  [ input_ |-> LitText(f, d),
    tokens_ |-> << SymToken("x"), SymToken("=") >>
                  \o [ k \in 1..Len(f[1]) |-> SymToken(f[1][k]) ]
                  \o << LiteralToken(d) >>
                  \o [ k \in 1..Len(f[2]) |-> SymToken(f[2][k]) ]
                  \o << SymToken(";"), Token("EoF", << >>, 1) >>,
    stack_ |-> << >>, rest |-> << >>, line |-> LitText(f, d), i |-> Len(LitText(f, d)),
    numLines |-> 1, inFor |-> FALSE ]

LitInit ==
  /\ prog = "literal"
  /\ pc = "parse"
  /\ lexer \in { LexedLiteral(f, d) : f \in LitFrames, d \in Literals }
  /\ ast = NoAst
  /\ kont = << >>
  /\ vm = NoVm
  /\ Constructed

LitNext == MainParse

LitSpec == LitInit /\ [][LitNext]_vars

\* ================================================================ claims
\* The name an assignment to an identifier writes, and the frame running it.
WrittenName == K.node.lhs.name

\* The name an Identifier expression reads.
ReadName == K.node.name

\* The frames of the parent chain of f, f included.
RECURSIVE Chain(_)
Chain(f) == IF f = 0 THEN {} ELSE { f } \cup Chain(frames[f].parent)

\* The first frame on the parent chain of f that binds name, or 0.
RECURSIVE NearestBinding(_, _)
NearestBinding(name, f) ==
  IF f = 0 THEN 0
  ELSE IF name \in DOMAIN frames[f].variables THEN f
  ELSE NearestBinding(name, frames[f].parent)

\* The read step delivers value v.
Reads(v) == fault' = "none" /\ rval_' = v

\* The read step raises UninitializedVariable.
ReadFails == fault' = "UninitializedVariableException"

\* The value the root frame holds for name is read, or the read fails when
\* the root frame has no binding.
ReadsRoot(name) ==
  IF name \in DOMAIN frames[globalFrame].variables
  THEN Reads(frames[globalFrame].variables[name])
  ELSE ReadFails

\* C1: an assignment x = e executed in frame f writes the root frame's
\* binding of x when x is in f's global set and otherwise creates or
\* overwrites x in f itself, leaving every other frame as it was.
C1_AssignTarget ==
  [][ At("AssignIdent") =>
        LET f == top
            tgt == IF WrittenName \in frames[f].globals THEN globalFrame ELSE f
        IN /\ Len(frames') = Len(frames)
           /\ WrittenName \in DOMAIN frames'[tgt].variables
           /\ frames'[tgt].variables[WrittenName] = rval_
           /\ \A x \in DOMAIN frames[tgt].variables :
                x # WrittenName =>
                  /\ x \in DOMAIN frames'[tgt].variables
                  /\ frames'[tgt].variables[x] = frames[tgt].variables[x]
           /\ \A i \in 1..Len(frames) : i # tgt => frames'[i] = frames[i] ]_vars

\* C1 witness: an assignment inside a function wrote the function's own frame
\* while the enclosing frame, which is not the root frame, binds the same
\* name, and an earlier assignment of the run went to the root frame from
\* inside a function.
C1_Witness ==
  LET w == ghost.write IN
  /\ w.cur > 1
  /\ w.target = w.cur
  /\ frames[w.cur].parent > 1
  /\ w.name \in DOMAIN frames[frames[w.cur].parent].variables
  /\ \E i \in 2..Len(frames) : \E x \in frames[i].globals : << globalFrame, x >> \in DOMAIN written

\* C2: the frame of a call has the called function's captured frame as its
\* parent and that frame's global frame as its global frame, and a name the
\* body leaves free is read through the captured frame, whatever the
\* caller's frame binds.
C2_LexicalParent ==
  /\ [](\A i \in 2..Len(frames) :
          LET F == functions[origin[i].fn] IN
          /\ frames[i].parent = F.context
          /\ frames[i].globalFrame = frames[F.context].globalFrame)
  /\ [][ ( /\ Visiting("Identifier")
           /\ top > 1
           /\ ReadName \notin frames[top].globals
           /\ ReadName \notin DOMAIN frames[top].variables )
         => LET d == lookupRead(ReadName, functions[origin[top].fn].context)
            IN IF d.ok THEN Reads(d.val) ELSE ReadFails ]_vars

\* C2 witness: a free name was read in a frame whose caller is not its
\* parent, and the caller binds that name.
C2_Witness ==
  LET r == ghost.read IN
  /\ r.cur > 1
  /\ r.ok
  /\ r.name \notin DOMAIN frames[r.cur].variables
  /\ origin[r.cur].caller # frames[r.cur].parent
  /\ r.name \in DOMAIN frames[origin[r.cur].caller].variables
  /\ r.val # frames[origin[r.cur].caller].variables[r.name]


\* The names a function body assigns with an identifier on the left, sought
\* through blocks, both branches of an if, and while bodies, and not inside
\* the function declarations the body holds.
RECURSIVE AssignedNames(_)
AssignedNames(node) ==
  CASE node.k = "Assignment" ->
         IF node.lhs.k = "Identifier" THEN { node.lhs.name } ELSE {}
    [] node.k = "Block" ->
         UNION { AssignedNames(node.statements[i]) : i \in 1..Len(node.statements) }
    [] node.k = "IfStatement" ->
         AssignedNames(node.thenPart) \cup
         (IF node.elsePart.k = "nullptr" THEN {} ELSE AssignedNames(node.elsePart))
    [] node.k = "WhileLoop" -> AssignedNames(node.body)
    [] OTHER -> {}

\* The parameter names of function f.
Params(f) == { functions[f].arguments[i] : i \in 1..Len(functions[f].arguments) }

\* A call has just been entered: its frame is the newest one and is on top
\* of the stack.
Entered == Len(frames') = Len(frames) + 1 /\ Len(stack_') = Len(stack_) + 1

\* C3: entering a call binds to None every name the body assigns that is
\* neither a parameter nor declared global; such a name read in the call's
\* frame before any assignment to it yields None; and reading a name that no
\* frame of the scope chain binds and that is not declared global raises
\* UninitializedVariable.
C3_LocalsStartNone ==
  /\ [][ Entered =>
           LET new == Len(frames')
               f == origin'[new].fn
               body == BodyAt(functions[f].body)
           IN \A x \in AssignedNames(body) :
                (x \notin Params(f) /\ x \notin frames'[new].globals) =>
                  /\ x \in DOMAIN frames'[new].variables
                  /\ frames'[new].variables[x] = NoneV ]_vars
  /\ [][ ( /\ Visiting("Identifier")
           /\ top > 1
           /\ ReadName \in AssignedNames(BodyAt(functions[origin[top].fn].body))
           /\ ReadName \notin Params(origin[top].fn)
           /\ ReadName \notin frames[top].globals
           /\ << top, ReadName >> \notin DOMAIN written )
         => Reads(NoneV) ]_vars
  /\ [][ ( /\ Visiting("Identifier")
           /\ ReadName \notin frames[top].globals
           /\ \A g \in Chain(top) : ReadName \notin DOMAIN frames[g].variables )
         => ReadFails ]_vars

\* C3 witness: a call's frame holds None for a name assigned only inside a
\* while body that never ran, that None was printed, and a name assigned only
\* inside a nested function body was then read in the frame and raised
\* UninitializedVariable.
C3_Witness ==
  /\ Len(frames) >= 2
  /\ ghost.read.cur = 2
  /\ ~ghost.read.ok
  /\ fault = "UninitializedVariableException"
  /\ \E x \in DOMAIN frames[2].variables :
       /\ << 2, x >> \notin DOMAIN written
       /\ x \notin Params(origin[2].fn)
       /\ frames[2].variables[x] = NoneV
  /\ Len(out) >= 2 /\ out[2] = << "N", "o", "n", "e" >>

\* C4 as stated: a read of x in frame f yields the root frame's binding when
\* x is in f's global set and otherwise the binding of the nearest frame on
\* f's parent chain that has one, raising UninitializedVariable when there
\* is no applicable binding.
C4_NearestBinding ==
  [][ Visiting("Identifier") =>
        IF ReadName \in frames[top].globals THEN ReadsRoot(ReadName)
        ELSE LET n == NearestBinding(ReadName, top)
             IN IF n = 0 THEN ReadFails
                ELSE Reads(frames[n].variables[ReadName]) ]_vars

\* The first frame on the parent chain of f that declares name global or
\* binds it, or 0.
RECURSIVE DecidingFrame(_, _)
DecidingFrame(name, f) ==
  IF f = 0 THEN 0
  ELSE IF name \in frames[f].globals \/ name \in DOMAIN frames[f].variables THEN f
  ELSE DecidingFrame(name, frames[f].parent)

\* C4: a read of x in frame f is decided by the first frame on f's parent
\* chain, f included, that either declares x global or binds x: a frame that
\* declares x global yields the root frame's binding (UninitializedVariable
\* when the root frame has none), a frame that only binds x yields its
\* binding, and with no such frame the read raises UninitializedVariable.
C4_GlobalAtEachFrame ==
  [][ Visiting("Identifier") =>
        LET d == DecidingFrame(ReadName, top)
        IN IF d = 0 THEN ReadFails
           ELSE IF ReadName \in frames[d].globals THEN ReadsRoot(ReadName)
           ELSE Reads(frames[d].variables[ReadName]) ]_vars

\* C4 witness: a name was read in a frame that neither binds it nor declares
\* it global, the nearest binding on the parent chain is in a frame other
\* than the root frame, and the value read is the root frame's, which
\* differs from that nearest binding.
C4_Witness ==
  LET r == ghost.read
      n == NearestBinding(r.name, r.cur)
  IN /\ r.cur > 1
     /\ r.ok
     /\ n > 1
     /\ r.name \notin frames[r.cur].globals
     /\ r.name \in DOMAIN frames[globalFrame].variables
     /\ r.val = frames[globalFrame].variables[r.name]
     /\ r.val # frames[n].variables[r.name]

\* C5: a read, in a call of a closure created in frame N, of a name the
\* call's frame neither binds nor declares global and that N binds, yields
\* the value most recently assigned to that name in N, whenever that
\* assignment happened.
C5_SharedFrame ==
  [][ ( /\ Visiting("Identifier")
        /\ top > 1
        /\ ReadName \notin frames[top].globals
        /\ ReadName \notin DOMAIN frames[top].variables
        /\ ReadName \notin frames[functions[origin[top].fn].context].globals
        /\ << functions[origin[top].fn].context, ReadName >> \in DOMAIN written )
      => Reads(written[<< functions[origin[top].fn].context, ReadName >>]) ]_vars

\* C5 witness: the newest assignment of the run wrote a name in frame N,
\* which is not the root frame, after a closure had been created in N, and a
\* call of that closure then read the assigned value through N.
C5_Witness ==
  LET r == ghost.read
      w == ghost.write
  IN /\ r.cur > 1
     /\ r.ok
     /\ r.name = w.name
     /\ r.name \notin DOMAIN frames[r.cur].variables
     /\ functions[origin[r.cur].fn].context = w.target
     /\ w.target > 1
     /\ origin[r.cur].fn <= w.nfun
     /\ r.val = written[<< w.target, w.name >>]
     /\ \E c \in 2..Len(frames) :
          /\ c # w.target
          /\ r.name \in DOMAIN frames[c].variables
          /\ frames[c].variables[r.name] # r.val


\* A text line of the output.
Line(n) == to_string(n)

\* C6: once a Return has executed in a call, no statement or expression of
\* that call is visited until the call completes; the completed call yields
\* the returned value, or None when its body ended without a Return; and
\* the return flag is clear when the caller goes on, so the caller's next
\* statements run.
C6_ReturnUnwinds ==
  /\ []( (hasReturned_ /\ kont # << >>) => Head(kont).op # "visit" )
  /\ [][ At("CallExit") =>
           /\ ~hasReturned_'
           /\ Len(stack_') = Len(stack_) - 1
           /\ IF hasReturned_ THEN ghost.ret.done /\ rval_' = ghost.ret.val
              ELSE rval_' = NoneV ]_vars
  /\ []( (prog = "return" /\ exitCode # -1) =>
           /\ out = << Line(1), Line(2), Line(20), << "N", "o", "n", "e" >>, Line(7) >>
           /\ exitCode = 0 )

\* C6 witness: a call whose Return ran inside an if inside a while has
\* completed with the returned value, the lines printed before the Return
\* are the only output, and the caller goes on with the flag clear.
C6_Witness ==
  /\ prog = "return"
  /\ ghost.call.returned
  /\ ghost.ret.done
  /\ ghost.call.val = ghost.ret.val
  /\ rval_ = IntV(20)
  /\ ~hasReturned_
  /\ out = << Line(1), Line(2) >>
  /\ kont # << >>

\* C7 as stated: the counter program writes the lines 1, 2, 3 and exits
\* with code 0.
C7_CounterCounts ==
  (prog = "counter" /\ exitCode # -1) =>
    out = << Line(1), Line(2), Line(3) >> /\ exitCode = 0

\* C7: the counter program writes nothing to stdout, reports IllegalCast and
\* exits with code 1: the inner closure's own frame binds n to None, since
\* its body assigns n, and None + 1 is not defined.
C7_CounterFaults ==
  /\ (prog = "counter" /\ exitCode # -1) =>
       out = << >> /\ fault = "IllegalCastException" /\ exitCode = 1
  /\ (prog = "counter" /\ fault # "none") =>
       /\ Len(frames) = 3
       /\ frames[3].parent = 2
       /\ frames[3].variables = [x \in { "n" } |-> NoneV]
       /\ frames[2].variables["n"] = IntV(0)

\* C7 witness: the counter program has ended with exit code 1 after the
\* first call of the inner closure.
C7_Witness ==
  /\ prog = "counter"
  /\ exitCode = 1
  /\ Len(frames) = 3
  /\ origin[3].caller = globalFrame

\* The output and the heap are as they were when the call was visited.
NoSideEffect(pre) ==
  out = pre.out /\ frames = pre.frames /\ records = pre.records

\* C8: once the target of a call is evaluated, a target that is not a
\* function raises IllegalCast and a function, native or not, whose
\* parameter count differs from the argument count raises the Runtime fault;
\* with an identifier as target, nothing has been printed, assigned or
\* allocated since the call was visited, so no argument was evaluated.
C8_ChecksBeforeArguments ==
  LET c == ghost.check IN
  c.done =>
    /\ c.tag # "Fun" => fault = "IllegalCastException"
    /\ (c.tag = "Fun" /\ c.nparams # c.nargs) => fault = "RuntimeException"
    /\ (c.tag # "Fun" \/ c.nparams # c.nargs) =>
         /\ kont = << >>
         /\ c.targetKind = "Identifier" => NoSideEffect(c.pre)

\* C8 witness: a native function was called with an argument count other
\* than its parameter count, the argument expressions being calls that
\* print, and the Runtime fault was raised with nothing printed.
C8_Witness ==
  LET c == ghost.check IN
  /\ c.done
  /\ c.tag = "Fun"
  /\ c.native
  /\ c.nargs > c.nparams
  /\ fault = "RuntimeException"
  /\ out = << >>

\* C9: == on two functions is true exactly when they have the same captured
\* frame, the same parameter list and the same body node; for closures of
\* one declaration that is exactly when they were created in the same frame,
\* closures of distinct declarations are unequal; == on values of different
\* tags is false; and == raises no fault.
C9_FunctionEquality ==
  /\ [](LET e == ghost.eq IN
        e.done =>
          /\ (e.left.t = "Fun" /\ e.right.t = "Fun") =>
               LET F == functions[e.left.v]
                   G == functions[e.right.v]
               IN /\ e.res = (F.context = G.context /\ F.arguments = G.arguments
                                /\ F.body = G.body)
                  /\ (F.body = G.body /\ F.body # 0) => (e.res = (F.context = G.context))
                  /\ (F.body # G.body) => ~e.res
          /\ e.left.t # e.right.t => ~e.res)
  /\ [][ (At("BinaryApply") /\ K.node.op = "Eq") =>
           fault' = "none" /\ rval_'.t = "Bool" ]_vars

\* C9 witness: two closures of one declaration, created in different frames,
\* were compared and found unequal.
C9_Witness ==
  LET e == ghost.eq IN
  /\ e.done
  /\ e.left.t = "Fun" /\ e.right.t = "Fun"
  /\ e.left.v # e.right.v
  /\ functions[e.left.v].body = functions[e.right.v].body
  /\ functions[e.left.v].body # 0
  /\ functions[e.left.v].context # functions[e.right.v].context
  /\ ~e.res

\* The value of the last entry of fields named name.
LastField(fields, name) ==
  fields[CHOOSE i \in 1..Len(fields) :
           /\ fields[i][1] = name
           /\ \A j \in (i + 1)..Len(fields) : fields[j][1] # name][2]

\* The text sub occurs in the text line.
Occurs(sub, line) ==
  \E i \in 1..(Len(line) - Len(sub) + 1) : SubSeq(line, i, i + Len(sub) - 1) = sub

\* C10 as stated: a field read, by dereference or by index, from a record
\* that a literal built and nothing was stored into since yields the value
\* of the last entry of that name, and the printed record of the literal
\* { a:1; b:3; a:2; } shows a with the value 2 and not with the value 1.
C10_LaterOccurrenceWins ==
  /\ [][ ( /\ At("FieldGet")
           /\ rval_.t = "Rec"
           /\ rval_.v \notin ghost.stored
           /\ HasField(records[rval_.v], K.node.field) )
         => rval_' = LastField(records[rval_.v], K.node.field) ]_vars
  /\ [][ ( /\ At("IndexGet")
           /\ K.record \notin ghost.stored
           /\ HasField(records[K.record], valueToString(rval_)) )
         => rval_' = LastField(records[K.record], valueToString(rval_)) ]_vars
  /\ []( (prog = "dup" /\ Len(out) >= 3) =>
           /\ Occurs(<< "a", ":", "2" >>, out[3])
           /\ ~Occurs(<< "a", ":", "1" >>, out[3]) )


\* Field name a comes before field name b: the first character at which
\* they differ is smaller in a, or a is a proper prefix of b.
NameBefore(a, b) ==
  \E i \in 1..Len(b) :
    /\ \A j \in 1..(i - 1) : j <= Len(a) /\ a[j] = b[j]
    /\ (i > Len(a) \/ (a[i] # b[i] /\ Ord(a[i]) < Ord(b[i])))

\* The line the record format `{ k1:v1 k2:v2 }` gives for record value v:
\* a brace, every entry in ascending order of name preceded by one space,
\* one space and the closing brace; `{}` for a record without fields.
RECURSIVE RecordLine(_)
RECURSIVE EntriesLine(_, _)
EntriesLine(entries, i) ==
  IF i > Len(entries) THEN << >>
  ELSE << " " >> \o entries[i][1] \o << ":" >>
       \o (IF entries[i][2].t = "Rec" THEN RecordLine(entries[i][2])
           ELSE valueToString(entries[i][2]))
       \o EntriesLine(entries, i + 1)

RecordLine(v) ==
  IF records[v.v] = << >> THEN << "{", "}" >>
  ELSE << "{" >>
       \o EntriesLine(SortSeq(records[v.v], LAMBDA x, y : NameBefore(x[1], y[1])), 1)
       \o << " ", "}" >>

\* The field names of fields are pairwise different.
DistinctNames(fields) ==
  \A i, j \in 1..Len(fields) : fields[i][1] = fields[j][1] => i = j

\* C11 as stated: a printed record whose field names differ is written as
\* `{ k1:v1 k2:v2 }`, fields ascending by name, one space after the opening
\* brace, between entries and before the closing brace, values formatted
\* the same way, `{}` when empty; the program of scenario S5 prints
\* `{ a:1 b:2 c:3 }`.
C11_RecordFormat ==
  /\ [][ (At("PrintOut") /\ rval_.t = "Rec" /\ DistinctNames(records[rval_.v])
          /\ ~Exhausts(rval_))
         => out' = Append(out, RecordLine(rval_)) ]_vars
  /\ []( (prog = "record" /\ Len(out) >= 1) =>
           out[1] = << "{", " ", "a", ":", "1", " ", "b", ":", "2", " ",
                       "c", ":", "3", " ", "}" >> )


\* The position of the first entry of fields named name, 0 when absent.
FieldPosition(fields, name) ==
  IF \E i \in 1..Len(fields) : fields[i][1] = name
  THEN CHOOSE i \in 1..Len(fields) :
         fields[i][1] = name /\ \A j \in 1..(i - 1) : fields[j][1] # name
  ELSE 0

\* A read of the field called name: its value, None when absent; the record
\* is left as it is.
ReadsFieldNamed(fields, name) ==
  /\ fault' = "none"
  /\ rval_' = IF FieldPosition(fields, name) = 0 THEN NoneV
              ELSE fields[FieldPosition(fields, name)][2]
  /\ records' = records

\* A store of v into the field called name of record r: an existing field
\* keeps its position and takes the value, an absent one is appended.
StoresFieldNamed(r, name, v) ==
  LET fields == records[r]
      p == FieldPosition(fields, name)
  IN /\ fault' = "none"
     /\ Len(records') = Len(records)
     /\ \A q \in 1..Len(records) : q # r => records'[q] = records[q]
     /\ IF p = 0 THEN records'[r] = fields \o << << name, v >> >>
        ELSE /\ Len(records'[r]) = Len(fields)
             /\ \A i \in 1..Len(fields) :
                  records'[r][i] = IF i = p THEN << name, v >> ELSE fields[i]

\* C12: r[k] reads and assigns the field named valueToString(k), as the
\* dereference of that name does: an absent field reads as None and is not
\* added, an assignment to an existing field replaces its value where it
\* stands, an assignment to an absent field appends it, and a base that is
\* not a record raises IllegalCast.
C12_IndexIsFieldByName ==
  /\ [][ At("IndexGet") => ReadsFieldNamed(records[K.record], valueToString(rval_)) ]_vars
  /\ [][ (At("FieldGet") /\ rval_.t = "Rec")
         => ReadsFieldNamed(records[rval_.v], K.node.field) ]_vars
  /\ [][ (At("AssignIndex3") /\ K.a1.t = "Rec")
         => StoresFieldNamed(K.a1.v, valueToString(K.indexValue), rval_) ]_vars
  /\ [][ (At("AssignField2") /\ K.a1.t = "Rec")
         => StoresFieldNamed(K.a1.v, K.node.lhs.field, rval_) ]_vars
  /\ [][ ( \/ (At("IndexBase") \/ At("FieldGet")) /\ rval_.t # "Rec"
           \/ (At("AssignIndex3") \/ At("AssignField2")) /\ K.a1.t # "Rec" )
         => fault' = "IllegalCastException" /\ records' = records ]_vars
  /\ []( (prog = "index" /\ Len(out) >= 6) =>
           /\ out[1] = << "b" >>
           /\ out[2] = << "5" >>
           /\ out[3] = << "6" >>
           /\ out[4] = << "N", "o", "n", "e" >> /\ out[5] = out[4]
           /\ Len(records[1]) = 3 )

\* C12 witness: the field named 1 was stored through the integer key 1 and
\* then through the string key "1", the record holds a single field of that
\* name, in second position behind x, and the read r[1] returned the value
\* stored through "1".
C12_Witness ==
  /\ prog = "index"
  /\ ghost.get.rec = 1
  /\ ghost.get.name = << "1" >>
  /\ ghost.get.val = StrV(<< "b" >>)
  /\ Len(records[1]) = 2
  /\ records[1][2] = << << "1" >>, StrV(<< "b" >>) >>
  /\ 1 \in ghost.stored


\* The text s is an optional '-' followed by one or more decimal digits.
SignedDigits(s) ==
  LET d == IF s # << >> /\ Head(s) = "-" THEN Tail(s) ELSE s
  IN d # << >> /\ \A i \in 1..Len(d) : isdigit(d[i])

\* C13 as stated: intcast returns an Int argument unchanged, turns a String
\* into an Int exactly when the whole string is an optional '-' followed by
\* one or more digits, and raises IllegalCast for every other string ("-"
\* alone and the empty string among them) and every other type of value.
C13_IntcastAccepts ==
  [][ At("IntcastApply") =>
        CASE rval_.t = "Int" -> fault' = "none" /\ rval_' = rval_
          [] rval_.t = "Str" ->
               IF SignedDigits(rval_.v) THEN fault' = "none" /\ rval_'.t = "Int"
               ELSE fault' = "IllegalCastException"
          [] OTHER -> fault' = "IllegalCastException" ]_vars


\* The operator of the pending binary expression is And or Or.
Logical == K.node.op \in { "And", "Or" }

\* C14: for And and Or the left operand is visited first, the right operand
\* is visited next whatever value the left one gave, and only then is the
\* result formed: a Bool when both values are Bool, IllegalCast otherwise.
C14_NoShortCircuit ==
  /\ [][ (Visiting("BinaryExpression") /\ Logical)
         => /\ kont'[1] = Visit(K.node.leftOperand)
            /\ kont'[2] = [op |-> "BinaryRight", node |-> K.node] ]_vars
  /\ [][ (At("BinaryRight") /\ Logical)
         => /\ fault' = "none"
            /\ kont'[1] = Visit(K.node.rightOperand)
            /\ kont'[2].op = "BinaryApply" /\ kont'[2].left = rval_ ]_vars
  /\ [][ (At("BinaryApply") /\ Logical)
         => IF K.left.t = "Bool" /\ rval_.t = "Bool"
            THEN /\ fault' = "none"
                 /\ rval_' = BoolV(IF K.node.op = "And" THEN K.left.v /\ rval_.v
                                   ELSE K.left.v \/ rval_.v)
            ELSE fault' = "IllegalCastException" ]_vars
  /\ []( (prog = "eager" /\ Len(out) >= 6) =>
           SubSeq(out, 1, 6) = << << "0" >>, << "1" >>, << "f", "a", "l", "s", "e" >>,
                                  << "1" >>, << "0" >>, << "t", "r", "u", "e" >> >> )
  /\ []( (prog = "eager" /\ exitCode # -1) =>
           \/ fault = "IllegalArithmeticException" /\ Len(out) = 6
           \/ fault = "IllegalCastException" /\ Len(out) = 6
           \/ fault = "IllegalCastException" /\ Len(out) = 7 /\ out[7] = << "1" >> )

\* C14 witness: the right operand of an And whose left operand was false
\* raised IllegalArithmetic, after f() & t() and t() | f() had each printed
\* both operands' lines.
C14_Witness ==
  /\ prog = "eager"
  /\ fault = "IllegalArithmeticException"
  /\ Len(out) = 6
  /\ out[1] = << "0" >> /\ out[2] = << "1" >>
  /\ out[4] = << "1" >> /\ out[5] = << "0" >>


\* The four runtime faults.
RuntimeFaults ==
  { "UninitializedVariableException", "IllegalCastException",
    "IllegalArithmeticException", "RuntimeException" }

\* C15: once a runtime fault is raised nothing of the program is pending
\* any more, the fault stays as raised, stdout and the heap no longer
\* change, and the run ends with the fault's name on stderr and exit code
\* 1; the program `print(1 / 0); print(2);` prints nothing.
C15_FaultEndsRun ==
  /\ []( fault \in RuntimeFaults => kont = << >> )
  /\ [][ (fault \in RuntimeFaults) =>
           /\ fault' = fault
           /\ out' = out
           /\ << frames', functions', records', stack_' >> =
              << frames, functions, records, stack_ >>
           /\ exitCode' = 1
           /\ err' = << fault >> ]_vars
  /\ []( (exitCode # -1 /\ fault \in RuntimeFaults) =>
           exitCode = 1 /\ err = << fault >> )
  /\ []( exitCode = 1 => fault \in RuntimeFaults )
  /\ []( (prog = "divzero" /\ exitCode # -1) =>
           out = << >> /\ err = << "IllegalArithmeticException" >> /\ exitCode = 1 )

\* C15 witness: a run that had printed lines and still had statements to
\* execute has ended on a fault with exit code 1 and the fault's name on
\* stderr, nothing printed after the fault.
C15_Witness ==
  /\ prog = "locals"
  /\ fault = "UninitializedVariableException"
  /\ exitCode = 1
  /\ err = << "UninitializedVariableException" >>
  /\ Len(out) = 4
  /\ Len(stack_) = 2

\* What main() has run of the program: nothing.
NothingRun ==
  /\ kont = << >>
  /\ ast = NoAst
  /\ records = << >>
  /\ written = << >>
  /\ rval_ = NoneV
  /\ fault = "none"
  /\ ghost = NoGhost

LexFailed == \E k \in DOMAIN lexer.tokens_ : lexer.tokens_[k].type = "Error"

\* C16: the interpreter runs only on the tree the parser returned for
\* tokens without an Error token; a run that ends after lexing or parsing
\* returns 1 with nothing of the program run, std::cout empty after a lex
\* error and holding exactly `parse error` after a syntax error; 0 is
\* returned only when no token is an Error, the parser returned a tree and
\* interpret() came to its end without an exception.
C16_StagesGated ==
  /\ pc \in { "lex", "parse" } => NothingRun /\ out = << >> /\ exitCode = -1
  /\ pc = "interpret" =>
       /\ ~LexFailed
       /\ parse(lexer.tokens_).has_value
       /\ ast = Held(parse(lexer.tokens_).value)
  /\ pc = "done" =>
       /\ exitCode = 1
       /\ NothingRun
       /\ IF LexFailed THEN out = << >>
          ELSE /\ ~parse(lexer.tokens_).has_value
               /\ out = << << "parse error" >> >>
  /\ exitCode = 0 => pc = "interpret" /\ kont = << >> /\ fault = "none"

\* C16 witness: a text whose first statement is a well-formed print and
\* whose second is a syntax error has ended with `parse error` and 1.
C16_Witness ==
  /\ prog = "syntax"
  /\ pc = "done"
  /\ exitCode = 1
  /\ out = << << "parse error" >> >>
  /\ ~LexFailed
  /\ Len(lexer.tokens_) > 5

\* C17: lex() returns for every text; the tokens it returns hold exactly
\* one EoF token, the last one, and none is there before it returns; every
\* pass of the for loop over a line moves i forward or leaves the line.
C17_LexTerminates ==
  /\ <>(pc = "parse")
  /\ [](pc = "lex" => \A k \in DOMAIN lexer.tokens_ : lexer.tokens_[k].type # "EoF")
  /\ [](pc = "parse" =>
          /\ lexer.tokens_ # << >>
          /\ \A k \in DOMAIN lexer.tokens_ :
               lexer.tokens_[k].type = "EoF" <=> k = Len(lexer.tokens_))
  /\ [][(pc = "lex" /\ lexer.inFor) =>
          \/ ~lexer'.inFor
          \/ lexer'.inFor /\ lexer'.line = lexer.line /\ lexer'.i > lexer.i]_vars

\* C17 witness: lex() has returned on a text of two lines in which it
\* reported a character no reader takes.
C17_Witness ==
  /\ pc = "parse"
  /\ lexer.numLines = 2
  /\ \E k \in DOMAIN lexer.tokens_ :
       /\ lexer.tokens_[k].type = "Error"
       /\ lexer.tokens_[k].str[1] = "unrecognized character '"

Openers == { "LBrace", "LParen", "LSquareBrace" }
Closers == { "RBrace", "RParen", "RSquareBrace" }

Pairs(o, c) ==
  \/ o = "LBrace" /\ c = "RBrace"
  \/ o = "LParen" /\ c = "RParen"
  \/ o = "LSquareBrace" /\ c = "RSquareBrace"

\* The types of the bracket tokens of a token vector, in order.
RECURSIVE Brackets(_)
Brackets(ts) ==
  IF ts = << >> THEN << >>
  ELSE IF Head(ts).type \in Openers \cup Closers
  THEN << Head(ts).type >> \o Brackets(Tail(ts))
  ELSE Brackets(Tail(ts))

\* Proper nesting, by cancelling an opener next to its closer until nothing
\* is left.
RECURSIVE Nested(_)
Nested(bs) ==
  \/ bs = << >>
  \/ \E k \in 1..(Len(bs) - 1) :
       /\ Pairs(bs[k], bs[k + 1])
       /\ Nested(SubSeq(bs, 1, k - 1) \o SubSeq(bs, k + 2, Len(bs)))

Unmatched(t) == t.type = "Error" /\ t.str # << >> /\ t.str[1] = "unmatched '"

\* The tokens a step of lex() added.
Added == SubSeq(lexer'.tokens_, Len(lexer.tokens_) + 1, Len(lexer'.tokens_))

\* C18: a pass of the for loop that reads a closer pops the stack and adds
\* the closer alone when its opener is on top, and otherwise adds one Error
\* `unmatched '<c>'` on the closer's line before the closer and leaves the
\* stack as it is; an opener is pushed; any other token leaves the stack
\* alone; after the last line each pass pops one opener and adds one Error
\* `unmatched '<o>'` on the opener's line, and EoF is added on an empty
\* stack; the tokens lex() returns hold no `unmatched` Error iff their
\* bracket tokens are properly nested.
C18_BracketStack ==
  /\ [](pc = "parse" =>
          ( (\A k \in DOMAIN lexer.tokens_ : ~Unmatched(lexer.tokens_[k]))
            <=> Nested(Brackets(lexer.tokens_)) ))
  /\ [][(pc = "lex" /\ lexer.inFor /\ lexer'.tokens_ # lexer.tokens_) =>
          LET t == lexer'.tokens_[Len(lexer'.tokens_)]
              opener == lexer.stack_[Len(lexer.stack_)]
          IN  CASE t.type \in Openers ->
                     /\ Added = << t >>
                     /\ lexer'.stack_ = Append(lexer.stack_, t)
                [] t.type \in Closers ->
                     IF lexer.stack_ # << >> /\ Pairs(opener.type, t.type)
                     THEN /\ Added = << t >>
                          /\ lexer'.stack_ = SubSeq(lexer.stack_, 1, Len(lexer.stack_) - 1)
                     ELSE /\ Added = << Token("Error", << "unmatched '", t.str[1], "'" >>, t.line),
                                        t >>
                          /\ lexer'.stack_ = lexer.stack_
                [] OTHER ->
                     /\ Added = << t >>
                     /\ ~Unmatched(t)
                     /\ lexer'.stack_ = lexer.stack_]_vars
  /\ [][(pc = "lex" /\ ~lexer.inFor /\ lexer'.tokens_ # lexer.tokens_) =>
          LET opener == lexer.stack_[Len(lexer.stack_)]
          IN  IF lexer.stack_ # << >>
              THEN /\ Added = << Token("Error", << "unmatched '", opener.str[1], "'" >>, opener.line) >>
                   /\ lexer'.stack_ = SubSeq(lexer.stack_, 1, Len(lexer.stack_) - 1)
                   /\ pc' = "lex"
              ELSE /\ Added = << Token("EoF", << >>, lexer.numLines) >>
                   /\ pc' = "parse"]_vars

\* C18 witness: lex() has returned on `{(` `)]`: the `]` of line 2 met `{`
\* on the stack and was reported there, and the `{` left at the end was
\* reported on line 1.
C18_Witness ==
  /\ pc = "parse"
  /\ lexer.input_ = << "{", "(", "\n", ")", "]" >>
  /\ \E j, k \in DOMAIN lexer.tokens_ :
       /\ j < k
       /\ lexer.tokens_[j] = Token("Error", << "unmatched '", "]", "'" >>, 2)
       /\ lexer.tokens_[j + 1].type = "RSquareBrace"
       /\ lexer.tokens_[k] = Token("Error", << "unmatched '", "{", "'" >>, 1)
       /\ lexer.tokens_[k + 1].type = "EoF"

\* The end of the longest run of characters of the set cs that starts at
\* index j of a line (indices from 0).
RunOf(contents, j, cs) ==
  CHOOSE e \in j..Len(contents) :
    /\ \A m \in j..(e - 1) : CharAt(contents, m) \in cs
    /\ e < Len(contents) => CharAt(contents, e) \notin cs

DigitChars == { "0", "1", "2", "3", "4", "5", "6", "7", "8", "9" }

\* C19 as stated: when the scanner stands on a digit sequence that is
\* immediately followed by a letter or `_`, the pass of the loop consumes
\* the digits and every identifier character after them and adds exactly
\* one token, Error `invalid token '<text>'` with the whole run as text;
\* the digit sequence may be any, the single digit 0 included.
C19_DigitsThenLetter ==
  [][(pc = "lex" /\ lexer.inFor /\ lexer.i < Len(lexer.line)
        /\ ~isComment(lexer.line, lexer.i)
        /\ CharAt(lexer.line, lexer.i) \in DigitChars) =>
       LET d == RunOf(lexer.line, lexer.i, DigitChars)
           e == RunOf(lexer.line, d, DigitChars \cup Letters \cup { "_" })
       IN  (d < Len(lexer.line) /\ CharAt(lexer.line, d) \in Letters \cup { "_" }) =>
             /\ lexer'.i = e
             /\ lexer'.tokens_ =
                  Append(lexer.tokens_,
                         Token("Error",
                               << "invalid token '" >>
                                 \o SubSeq(lexer.line, lexer.i + 1, e) \o << "'" >>,
                               lexer.numLines))]_vars

\* The level of an expression tree in the order the claim gives, lowest
\* first: 1 `|`, 2 `&`, 3 prefix `!`, 4 `==`, 5 relational, 6 additive,
\* 7 multiplicative, 8 unary `-`, 9 primary.
Level(n) ==
  CASE n.k = "BinaryExpression" ->
         ( CASE n.op = "Or" -> 1 [] n.op = "And" -> 2 [] n.op = "Eq" -> 4
             [] n.op \in { "Lt", "Gt", "Leq", "Geq" } -> 5
             [] n.op \in { "Add", "Sub" } -> 6
             [] n.op \in { "Mul", "Div" } -> 7 )
    [] n.k = "UnaryExpression" -> IF n.op = "Not" THEN 3 ELSE 8
    [] OTHER -> 9

\* A tree that needs no parentheses when written out: a binary operator has
\* nothing of a lower level to its left, nothing of its own or a lower
\* level to its right (it groups to the left), and a prefix operator has
\* nothing of a lower level as operand.
RECURSIVE Tight(_)
Tight(n) ==
  CASE n.k = "BinaryExpression" ->
         /\ Level(n.leftOperand) >= Level(n)
         /\ Level(n.rightOperand) > Level(n)
         /\ Tight(n.leftOperand)
         /\ Tight(n.rightOperand)
    [] n.k = "UnaryExpression" -> Level(n.operand) >= Level(n) /\ Tight(n.operand)
    [] OTHER -> TRUE

OpSym(op) ==
  CASE op = "Or" -> "|" [] op = "And" -> "&" [] op = "Eq" -> "==" [] op = "Lt" -> "<"
    [] op = "Gt" -> ">" [] op = "Leq" -> "<=" [] op = "Geq" -> ">=" [] op = "Add" -> "+"
    [] op = "Sub" -> "-" [] op = "Mul" -> "*" [] op = "Div" -> "/"

\* The symbols of a tree from left to right, without parentheses.
RECURSIVE Flatten(_)
Flatten(n) ==
  CASE n.k = "BinaryExpression" ->
         Flatten(n.leftOperand) \o << OpSym(n.op) >> \o Flatten(n.rightOperand)
    [] n.k = "UnaryExpression" ->
         << IF n.op = "Not" THEN "!" ELSE "-" >> \o Flatten(n.operand)
    [] OTHER -> << n.name >>

\* The expression of the statement `x = <e>;` being parsed or parsed.
ExprOf == SubSeq(lexer.tokens_, 3, Len(lexer.tokens_) - 2)
IsExpr(e) == ExprOf = [ k \in 1..Len(e) |-> SymToken(e[k]) ]
Tree == ast.main.statements[1].expr

Bin(l, op, r) == BinaryExpression(Identifier(l), op, Identifier(r))

RECURSIVE LocEnd(_, _)
LocEnd(ts, q) ==
  IF ts[q].type = "Dot" /\ ts[q + 1].type = "Identifier" THEN LocEnd(ts, q + 2) ELSE q

StatementKeyword(t) ==
  t.type = "Keyword" /\ Text(t.str) \in { "if", "while", "return", "global" }

\* The tokens hold no keyword and no brace: every `;` ends a statement.
Flat(ts) == \A k \in DOMAIN ts : ts[k].type \notin { "Keyword", "LBrace", "RBrace" }

\* The places where the statements of flat tokens start.
Starts(ts) ==
  { j \in 1..(Len(ts) - 1) : j = 1 \/ ts[j - 1].type = "Semicolon" }

\* What a statement that starts with an Identifier at place j must be to
\* be accepted.
Expected(ts, j) ==
  LET t == ts[LocEnd(ts, j + 1)] IN
  CASE t.type = "Assign" -> { "Assignment" }
    [] t.type = "LParen" -> { "Call" }
    [] t.type = "LSquareBrace" -> { "Assignment", "Call" }
    [] OTHER -> { }

\* C21: with no Error token among them, tokens whose first statement starts
\* with anything but an Identifier or one of if, while, return, global
\* (a `{`, a literal, `fun` among them) give no AST; after the location an
\* Identifier starts, `=` gives an Assignment, `(` a Call that `;` must
\* follow, and any other token gives no AST; an AST is returned only with
\* every token before EoF consumed, and for tokens without keywords and
\* braces it holds one statement per `;`, each started by an Identifier and
\* of the kind the token after its location asks for.
C21_StatementForms ==
  (pc # "parse" /\ ~LexFailed) =>
    LET ts == lexer.tokens_ IN
    /\ pc = "interpret" => program(ts).ok /\ program(ts).p = Len(ts) - 1
    /\ (ts[1].type \notin { "Identifier", "EoF" } /\ ~StatementKeyword(ts[1])) =>
         pc = "done" /\ out = << << "parse error" >> >>
    /\ ts[1].type = "Identifier" =>
         IF Expected(ts, 1) = { } THEN pc = "done"
         ELSE pc = "interpret" => ast.main.statements[1].k \in Expected(ts, 1)
    /\ (ts[1].type = "Identifier" /\ ts[2].type = "LParen" /\ ts[3].type = "RParen"
          /\ ts[4].type # "Semicolon") => pc = "done"
    /\ (pc = "interpret" /\ Flat(ts)) =>
         /\ Len(ast.main.statements) = Cardinality(Starts(ts))
         /\ \A j \in Starts(ts) :
              /\ ts[j].type = "Identifier"
              /\ ast.main.statements[Cardinality({ i \in Starts(ts) : i <= j })].k
                   \in Expected(ts, j)

\* C21 witness: `x.x = 1; x(1);` has been parsed into an Assignment to a
\* field and a Call.
C21_Witness ==
  /\ pc = "interpret"
  /\ Len(lexer.tokens_) = 12
  /\ Len(ast.main.statements) = 2
  /\ ast.main.statements[1].k = "Assignment"
  /\ ast.main.statements[1].lhs.k = "FieldDereference"
  /\ ast.main.statements[2].k = "Call"

\* Whether every instruction of the tree carries an operand exactly when
\* print(Instruction) reads one.
RECURSIVE FollowsTable(_)
FollowsTable(function) ==
  /\ \A i \in 1..Len(function.instructions) :
       function.instructions[i].operand0.has
         = mnemonic_of[function.instructions[i].operation].operand
  /\ \A i \in 1..Len(function.functions_) : FollowsTable(function.functions_[i])

\* C22 as stated: for every Function tree whose instructions follow the
\* operand table, the run of the parser on the text the pretty-printer wrote
\* for the tree succeeds and yields a tree structurally equal to it.
C22_RoundTrip ==
  (pc = "vm" /\ vm.run = 2 /\ vm.stage = "done" /\ FollowsTable(vm.given)) =>
    (exitCode = 0 /\ vm.function = vm.given)

\* C23 as stated: for every bytecode text the parser accepts, the text the
\* vm command writes is itself accepted by a second run of vm, and what the
\* second run writes is byte-identical to what it read.
C23_Idempotent ==
  (pc = "vm" /\ vm.run = 2 /\ vm.stage = "done") => (exitCode = 0 /\ vm.os = vm.first)

\* A decimal numeral without its leading zeros.
RECURSIVE Canonical(_)
Canonical(p) == IF Len(p) > 1 /\ Head(p) = "0" THEN Canonical(Tail(p)) ELSE p

Numeral(p) == p # << >> /\ \A i \in 1..Len(p) : p[i] \in DigitChars

\* The numerals that denote a value of 0..2^32-1.
Unsigned32(p) ==
  /\ Numeral(p)
  /\ \/ Len(Canonical(p)) < 10
     \/ Len(Canonical(p)) = 10
        /\ ~StrLess(<< "4", "2", "9", "4", "9", "6", "7", "2", "9", "5" >>, Canonical(p))

\* The literals that denote a negative number.
NegativeLiteral(p) ==
  /\ Len(p) > 1 /\ Head(p) = "-" /\ Numeral(Tail(p))
  /\ Canonical(Tail(p)) # << "0" >>

\* What vm writes for a function with every list empty and parameter count n.
Canonicalised(n) ==
  << "f", "u", "n", "c", "t", "i", "o", "n", "\n", "{", "\n", "\t", "f", "u", "n", "c", "t", "i", "o", "n", "s", " ", "=", " ", "[", "]", ",", "\n", "\t", "c", "o", "n", "s", "t", "a", "n", "t", "s", " ", "=", " ", "[", "]", ",", "\n", "\t", "p", "a", "r", "a", "m", "e", "t", "e", "r", "_", "c", "o", "u", "n", "t", " ", "=", " " >>
  \o n \o << ",", "\n", "\t", "l", "o", "c", "a", "l", "_", "v", "a", "r", "s", " ", "=", " ", "[", "]", ",", "\n", "\t", "l", "o", "c", "a", "l", "_", "r", "e", "f", "_", "v", "a", "r", "s", " ", "=", " ", "[", "]", ",", "\n", "\t", "f", "r", "e", "e", "_", "v", "a", "r", "s", " ", "=", " ", "[", "]", ",", "\n", "\t", "n", "a", "m", "e", "s", " ", "=", " ", "[", "]", ",", "\n", "\t", "i", "n", "s", "t", "r", "u", "c", "t", "i", "o", "n", "s", " ", "=", " ", "\n", "\t", "[", "\n", "\t", "]", "\n", "}" >>

\* C24 as stated: a function whose section is `parameter_count = n` with n
\* in 0..2^32-1 is accepted, n is stored and n is printed back; with a
\* negative literal the run ends in a parse error (a diagnostic and exit
\* code 1) and nothing is stored or printed.
C24_Unsigned32 ==
  \A p \in ParameterCountSlots :
    (pc = "vm" /\ vm.run = 1 /\ vm.stage = "done"
       /\ vm.contents = BytecodeText(<< >>, << >>, p, << >>, << >>)) =>
      ( IF Unsigned32(p)
        THEN /\ exitCode = 0
             /\ vm.function # NoFunction
             /\ to_string_uint32(vm.function.parameter_count_) = Canonical(p)
             /\ vm.os = Canonicalised(Canonical(p))
        ELSE NegativeLiteral(p) => (exitCode = 1 /\ vm.function = NoFunction /\ vm.os = << >>) )

\* The operations the claim lists as taking an operand, and the mnemonics
\* they are written with.
OperandOps ==
  { "LoadConst", "LoadFunc", "LoadLocal", "StoreLocal", "LoadGlobal", "StoreGlobal", "PushReference",
    "FieldLoad", "FieldStore", "AllocClosure", "Call", "Goto", "If" }

OperandMnemonics ==
  { "load_const", "load_func", "load_local", "store_local", "load_global", "store_global", "push_ref",
    "field_load", "field_store", "alloc_closure", "call", "goto", "if" }

\* Every Instruction in the tree carries an operand iff its operation is one
\* of OperandOps.
RECURSIVE OperandsAsListed(_)
OperandsAsListed(function) ==
  /\ \A i \in 1..Len(function.instructions) :
       function.instructions[i].operand0.has
         <=> function.instructions[i].operation \in OperandOps
  /\ \A i \in 1..Len(function.functions_) : OperandsAsListed(function.functions_[i])

\* The text before the instruction list of a function whose other members
\* are empty, and the words of the list as the lexer read them.
BeforeInstructions ==
  << "f", "u", "n", "c", "t", "i", "o", "n", "{", "f", "u", "n", "c", "t", "i", "o", "n", "s", "=", "[", "]", ",", "c", "o", "n", "s", "t", "a", "n", "t", "s", "=", "[", "]", ",", "p", "a", "r", "a", "m", "e", "t", "e", "r", "_", "c", "o", "u", "n", "t", "=", "0", ",", "l", "o", "c", "a", "l", "_", "v", "a", "r", "s", "=", "[", "]", ",", "l", "o", "c", "a", "l", "_", "r", "e", "f", "_", "v", "a", "r", "s", "=", "[", "]", ",", "f", "r", "e", "e", "_", "v", "a", "r", "s", "=", "[", "]", ",", "n", "a", "m", "e", "s", "=", "[", "]", ",", "i", "n", "s", "t", "r", "u", "c", "t", "i", "o", "n", "s", "=", "[" >>

OnlyInstructions ==
  /\ Len(vm.contents) >= Len(BeforeInstructions)
  /\ SubSeq(vm.contents, 1, Len(BeforeInstructions)) = BeforeInstructions
  /\ Len(vm.tokens) >= 42
  /\ vm.tokens[Len(vm.tokens) - 2].kind = "RBRACKET"
  /\ vm.tokens[Len(vm.tokens) - 1].kind = "RBRACE"

Words == [ i \in 1..(Len(vm.tokens) - 42) |-> Text(vm.tokens[39 + i].text) ]

\* The instruction lists the claim accepts: a mnemonic of OperandMnemonics
\* followed by an integer, or any other mnemonic on its own.
RECURSIVE Listed(_)
Listed(ws) ==
  IF ws = << >> THEN TRUE
  ELSE IF Head(ws) \in OperandMnemonics
  THEN Len(ws) >= 2 /\ ws[2] \in { "0", "-1" } /\ Listed(SubSeq(ws, 3, Len(ws)))
  ELSE Head(ws) \notin { "0", "-1" } /\ Listed(Tail(ws))

\* C25: every Instruction the parser has built, in a finished function or
\* in one being parsed, carries an operand iff its operation is one of the
\* thirteen listed; print(Instruction) reads the operand for exactly those,
\* and no run ends in bad_optional_access; an instruction list in which a
\* listed mnemonic is not followed by an integer, or an integer follows
\* another mnemonic, ends the run with a diagnostic and exit code 1, and
\* every other instruction list is accepted.
C25_OperandTable ==
  /\ pc = "vm" =>
       /\ vm.function # NoFunction => OperandsAsListed(vm.function)
       /\ \A i \in 1..Len(vm.calls) : OperandsAsListed(vm.calls[i].fn)
       /\ \A i \in 1..Len(err) :
            err[i] # "terminate called after throwing an instance of 'std::bad_optional_access'"
  /\ \A op \in DOMAIN mnemonic_of : mnemonic_of[op].operand <=> op \in OperandOps
  /\ (pc = "vm" /\ vm.run = 1 /\ vm.stage = "done" /\ OnlyInstructions) =>
       IF Listed(Words)
       THEN exitCode = 0 /\ vm.os # << >>
       ELSE exitCode = 1 /\ vm.os = << >> /\ err # << >>

C25_Witness ==
  /\ pc = "vm" /\ vm.run = 1 /\ vm.stage = "done" /\ exitCode = 0
  /\ Len(vm.function.instructions) = 5
  /\ vm.function.instructions[1] = Instruction("LoadConst", Some(0))
  /\ vm.function.instructions[4] = Instruction("Pop", nullopt)
  /\ Len(vm.function.functions_) = 1

\* The calls of user functions that have been entered and not yet left.
CallExits == Cardinality({ i \in 1..Len(kont) : kont[i].op = "CallExit" })

\* The step that ends the checks of a call of a user function and enters it.
UserCallStarts ==
  \/ /\ At("CallCheck") /\ rval_.t = "Fun" /\ functions[rval_.v].body # 0
     /\ Len(K.node.arguments) = 0 /\ functions[rval_.v].arguments = << >>
  \/ At("CallArg") /\ Len(K.args) + 1 = Len(K.node.arguments)

\* Exactly one frame, a new one, is pushed.
Pushes ==
  /\ Len(frames') = Len(frames) + 1
  /\ stack_' = Append(stack_, Len(frames'))
  /\ origin'[Len(frames')].caller = top

\* The top frame is popped: the stack is again the one the call was made on.
Pops ==
  /\ Len(stack_) >= 2
  /\ stack_' = SubSeq(stack_, 1, Len(stack_) - 1)
  /\ stack_'[Len(stack_')] = origin[top].caller

\* C26: the frame stack is never empty and its bottom is the root frame;
\* every frame on it was pushed by a call made while the frame below it was
\* the top; while no exception is in flight its depth is one more than the
\* number of user calls entered and not yet left; the step that enters a
\* user call pushes exactly one new frame, the step that completes it (with
\* or without Return) pops that frame and leaves the caller's frame on top,
\* and no other step (a native call, any other evaluation) changes the stack.
C26_StackBalanced ==
  /\ [](pc = "interpret" =>
          /\ Len(stack_) >= 1
          /\ stack_[1] = globalFrame
          /\ \A i \in 2..Len(stack_) : origin[stack_[i]].caller = stack_[i - 1]
          /\ fault = "none" => CallExits = Len(stack_) - 1)
  /\ [][pc = "interpret" =>
          /\ UserCallStarts => Pushes
          /\ At("CallExit") => Pops
          /\ (~UserCallStarts /\ ~At("CallExit")) => stack_' = stack_]_vars

\* A call made inside another call has completed on a Return, and the frame
\* of the outer call is on top again.
C26_Witness ==
  /\ pc = "interpret" /\ fault = "none"
  /\ ghost.call.fn # 0 /\ ghost.call.returned
  /\ Len(stack_) >= 2
  /\ top = origin[ghost.call.frame].caller
  /\ ghost.call.frame > top

\* C27: no node begins evaluation while hasReturned_ is set; the flag every
\* pending call saved at its entry is false; and once a Return has set the
\* flag outside any call, nothing more is evaluated or written, no exception
\* is raised, and main returns 0.
C27_ReturnFlag ==
  /\ [](pc = "interpret" =>
          /\ At("visit") => ~hasReturned_
          /\ \A i \in 1..Len(kont) : kont[i].op = "CallExit" => ~kont[i].oldReturnState
          /\ (hasReturned_ /\ Len(stack_) = 1) =>
               (fault = "none" /\ exitCode \in { -1, 0 }))
  /\ [][(pc = "interpret" /\ hasReturned_ /\ Len(stack_) = 1) =>
          /\ hasReturned_' /\ stack_' = stack_
          /\ out' = out /\ heap' = heap /\ rval_' = rval_
          /\ Len(kont') < Len(kont) \/ exitCode' = 0]_vars

\* A Return at top level, inside a loop and before other statements, has
\* ended the program: only what came before it was printed.
C27_Witness ==
  /\ pc = "interpret" /\ prog = "topreturn"
  /\ hasReturned_ /\ Len(stack_) = 1
  /\ rval_ = IntV(5)
  /\ out = << << "1" >> >>
  /\ exitCode = 0


\* C28: valueToString terminates for every value a program can construct,
\* a record reachable from one of its own fields included: every print(v)
\* writes its line and goes on, and every concatenation of a string with v
\* yields a string, no exception raised and the process not killed.
C28_ToStringTerminates ==
  /\ [][ At("PrintOut") => (Len(out') = Len(out) + 1 /\ fault' = "none") ]_vars
  /\ [][ (At("BinaryApply") /\ K.node.op = "Add" /\ (K.left.t = "Str" \/ rval_.t = "Str"))
         => (rval_'.t = "Str" /\ fault' = "none") ]_vars


\* C29: the three native functions have distinguished identities under ==:
\* whenever == has compared two functions of which at least one is print,
\* input or intcast, the result is true exactly when both operands are the
\* same function; so print == intcast is false and no native equals a
\* user-defined function.
C29_NativeIdentities ==
  ( /\ ghost.eq.done
    /\ ghost.eq.left.t = "Fun" /\ ghost.eq.right.t = "Fun"
    /\ \/ ghost.eq.left.v \in { printNative_, inputNative_, intcastNative_ }
       \/ ghost.eq.right.v \in { printNative_, inputNative_, intcastNative_ } )
  => (ghost.eq.res = (ghost.eq.left.v = ghost.eq.right.v))


\* The decimal value of a run of digits.
RECURSIVE Decimal(_)
Decimal(s) ==
  IF s = << >> THEN 0
  ELSE Decimal(SubSeq(s, 1, Len(s) - 1)) * 10 + DigitVal(s[Len(s)])

\* A run of digits without leading zero is at most 2^31-1.
FitsInt(s) == Len(s) < 10 \/ (Len(s) = 10 /\ ~StrLess(to_string(INT_MAX), s))

\* The IntLiteral token of the statement.
LitToken == CHOOSE t \in { lexer.tokens_[k] : k \in DOMAIN lexer.tokens_ } : t.type = "IntLiteral"

\* The values of the IntegerConstant nodes of an expression.
RECURSIVE IntegerConstantsIn(_)
IntegerConstantsIn(n) ==
  CASE n.k = "IntegerConstant" -> { n.value }
    [] n.k = "BinaryExpression" ->
         IntegerConstantsIn(n.leftOperand) \cup IntegerConstantsIn(n.rightOperand)
    [] n.k = "UnaryExpression" -> IntegerConstantsIn(n.operand)
    [] OTHER -> {}

\* C30: an integer literal becomes an IntegerConstant only when its value
\* fits a signed 32-bit integer.  After parse() on a statement holding one
\* literal: a literal of at most 2^31-1 gives a tree whose only
\* IntegerConstant is the decimal value of the token; a greater literal
\* gives no tree, `parse error` on standard output, the caught exception on
\* standard error and exit code 1.
C30_LiteralFits ==
  (prog = "literal" /\ pc # "parse") =>
    IF FitsInt(LitToken.str)
    THEN /\ pc = "interpret"
         /\ IntegerConstantsIn(Tree) = { Decimal(LitToken.str) }
         /\ exitCode = -1 /\ out = << >> /\ err = << >>
    ELSE /\ pc = "done"
         /\ ast = NoAst
         /\ exitCode = 1
         /\ out = << << "parse error" >> >>
         /\ err = << "Caught exception: stoi" >>

\* C30 witness: the statement x = a * 2147483648 - b; has been refused: no
\* tree, exit code 1.
C30_Witness ==
  /\ prog = "literal" /\ pc = "done"
  /\ LitToken.str = Near \o << "8" >>
  /\ Len(lexer.tokens_) = 9
  /\ exitCode = 1
  /\ ast = NoAst
====
